---- MODULE Spec2Model ----
(***************************************************************************)
(* Model of brewery's fingerprinted cache (core/cache.py) and of the       *)
(* repository layer built on it (core/repo.py and the providers).          *)
(*                                                                         *)
(* Spec      drives the Cache API (get_or_set, get, set) on one key.       *)
(* SpecRepo  drives Repository.get_all_installed / get_details.            *)
(***************************************************************************)
EXTENDS Integers, Sequences, FiniteSets, TLC

VARIABLES
    files,            \* key -> content of <cache_path>/<key>.json
    clock,            \* wall clock time.time(), in ticks of 1/TicksPerSec s
    cellar_mtime,     \* int(st_mtime) of brewery.cellar, 0 when missing
    caskroom_mtime,   \* int(st_mtime) of brewery.caskroom, 0 when missing
    cached_token,     \* module global _cached_token
    token_timestamp,  \* module global _token_timestamp (ticks)
    brew,             \* the external tool: availability and installed packages
    cres,             \* observation of the Cache call just made
    rres,             \* observation of the last Repository call, kept until
                      \* something outside the program changes
    rprev,            \* observation of the Repository call before it
    rt,               \* the retry wrapper: call in progress, or the last one
    fcall,            \* the last call of a function without state: its name,
                      \* argument and result
    fetch,            \* Repository._fetch_pkgs: the call in progress, or the
                      \* last one
    writers           \* two processes writing one entry file: the bytes on
                      \* disk and where each process is in its call

vars == <<files, clock, cellar_mtime, caskroom_mtime, cached_token,
          token_timestamp, brew, cres, rres, rprev, rt, fcall, fetch,
          writers>>

----------------------------------------------------------------------------
(* Bounds *)

TicksPerSec == 2
MaxClock == 2
MaxTTL == 1
(* the clock of the runs that compute update tokens only *)
MaxTokenClock == 3

(* ttl: Optional[int]; None is written NoTTL *)
NoTTL == -1

(* _cached_token = None *)
NoToken == <<>>

Now == clock \div TicksPerSec

----------------------------------------------------------------------------
(* Values: JSON documents.  A stored value is null, a list of package      *)
(* dicts, or a dict keyed by package name (kept as the sequence of its     *)
(* items in insertion order).                                              *)

JNull == [t |-> "null", items |-> <<>>]
JList(s) == [t |-> "list", items |-> s]
JDict(s) == [t |-> "dict", items |-> s]

(* cache file contents *)
Absent == [kind |-> "absent", ts |-> 0, token |-> NoToken, value |-> JNull]
Corrupt == [kind |-> "corrupt", ts |-> 0, token |-> NoToken, value |-> JNull]
NonDict == [kind |-> "nondict", ts |-> 0, token |-> NoToken, value |-> JNull]
Unreadable == [kind |-> "unreadable", ts |-> 0, token |-> NoToken, value |-> JNull]
Entry(ts, token, value) == [kind |-> "entry", ts |-> ts, token |-> token, value |-> value]

----------------------------------------------------------------------------
(* Keys.  cache_key = f"installed_{...}", map_key = f"installed_map_{...}" *)

Filters == {"formula", "cask", "all"}
ListKey(flt) == "installed_" \o flt
MapKey(flt) == "installed_map_" \o flt
Keys == {ListKey(flt) : flt \in Filters} \cup {MapKey(flt) : flt \in Filters}

(* the filters, kinds and keys SpecRepo exercises *)
RepoFilters == Filters
RepoKinds == {"FORMULA", "CASK"}
RepoKeys == Keys
RepoDamage == {Absent, Unreadable}

(* the key the Cache API is exercised on under Spec *)
CacheKeys == {ListKey("all")}

----------------------------------------------------------------------------
(* Update token *)

(* f"{cellar_mtime}-{caskroom_mtime}" *)
FsToken == <<cellar_mtime, caskroom_mtime>>

(* mutant: the directories are stat'ed on every call *)
UpdateTokenNoMemo(memo) ==
    [token |-> FsToken, memo |-> [cached |-> FsToken, stamp |-> clock]]

(* Cache._update_token: the memoised token is reused while it is set and   *)
(* less than one second old, else the directories are stat'ed again.       *)
UpdateToken(memo) ==
    IF memo.cached # NoToken /\ (clock - memo.stamp) < TicksPerSec
    THEN [token |-> memo.cached, memo |-> memo]
    ELSE [token |-> FsToken, memo |-> [cached |-> FsToken, stamp |-> clock]]

Memo == [cached |-> cached_token, stamp |-> token_timestamp]

----------------------------------------------------------------------------
(* Cache calls.  Each returns a record:                                    *)
(*   outcome  "return" or "raise"                                          *)
(*   value    the returned value (JNull is Python's None)                  *)
(*   exc      "none", "CacheError", "TransientError", "LoaderError"        *)
(*   files    the cache directory afterwards                               *)
(*   memo     the token memo afterwards                                    *)
(*   token    the update token the call used (NoToken if it computed none) *)
(*   loads    number of loader invocations                                 *)
(*   ctx      the context of the exception raised                          *)

(* context = {} *)
NoContext == [a \in {} |-> ""]

Returned(v, fs, memo, token, loads) ==
    [outcome |-> "return", value |-> v, exc |-> "none", ctx |-> NoContext,
     files |-> fs, memo |-> memo, token |-> token, loads |-> loads]

Raised(e, fs, memo, token, loads) ==
    [outcome |-> "raise", value |-> JNull, exc |-> e, ctx |-> NoContext,
     files |-> fs, memo |-> memo, token |-> token, loads |-> loads]

(* the Cache instance: Cache("repository"), whose files are                *)
(* CACHE_DIR / namespace / f"{key}.json"                                   *)
CacheDir == "~/.brewery/cache"
Namespace == "repository"
FilePath(key) == CacheDir \o "/" \o Namespace \o "/" \o key \o ".json"

(* mutant: the path is left out of the context *)
CacheErrorCtxNoPath(key, namespace, path, operation) ==
    LET given == [key |-> key, namespace |-> namespace, operation |-> operation]
    IN  [a \in {b \in DOMAIN given : given[b] # ""} |-> given[a]]

(* CacheError.__init__: the context holds each of key, namespace, path and *)
(* operation that is given and not empty ("" stands for None)              *)
CacheErrorCtx(key, namespace, path, operation) ==
    LET given == [key |-> key, namespace |-> namespace, path |-> path,
                  operation |-> operation]
    IN  [a \in {b \in DOMAIN given : given[b] # ""} |-> given[a]]

(* raise CacheError(key=key, namespace=self.cache_path.name,               *)
(*                  operation="read")                                      *)
ReadError(key, fs, memo, token, loads) ==
    [Raised("CacheError", fs, memo, token, loads)
        EXCEPT !.ctx = CacheErrorCtx(key, Namespace, "", "read")]

(* raise CacheError(key=key, namespace=self.cache_path.name,               *)
(*                  operation="write", path=str(f))                        *)
WriteError(key, fs, memo, token, loads) ==
    [Raised("CacheError", fs, memo, token, loads)
        EXCEPT !.ctx = CacheErrorCtx(key, Namespace, FilePath(key), "write")]

(* f.write_text(json.dumps({...})): "ok"; "denied" (nothing written);      *)
(* "truncated" (the file was opened and the write then failed).            *)
WriteOutcomes == {"ok", "denied", "truncated"}

(* mutant: an existing file is never superseded *)
WriteTextCreateOnly(fs, key, entry, w) ==
    IF w = "ok" /\ fs[key].kind = "absent" THEN [fs EXCEPT ![key] = entry]
    ELSE IF w = "truncated" THEN [fs EXCEPT ![key] = Corrupt]
    ELSE fs

WriteText(fs, key, entry, w) ==
    IF w = "ok" THEN [fs EXCEPT ![key] = entry]
    ELSE IF w = "truncated" THEN [fs EXCEPT ![key] = Corrupt]
    ELSE fs

(* mutant: get also expires entries, after one second *)
CacheGetExpiring(fs, memo, key) ==
    LET f == fs[key] IN
    IF f.kind = "absent" THEN Returned(JNull, fs, memo, NoToken, 0)
    ELSE IF f.kind = "unreadable" THEN ReadError(key, fs, memo, NoToken, 0)
    ELSE IF f.kind = "corrupt" THEN Returned(JNull, fs, memo, NoToken, 0)
    ELSE LET u == UpdateToken(memo) IN
         IF f.kind = "nondict" THEN ReadError(key, fs, u.memo, u.token, 0)
         ELSE IF u.token = f.token /\ Now - f.ts < 1
              THEN Returned(f.value, fs, u.memo, u.token, 0)
              ELSE Returned(JNull, fs, u.memo, u.token, 0)

(* Cache.get *)
CacheGet(fs, memo, key) ==
    LET f == fs[key] IN
    IF f.kind = "absent" THEN Returned(JNull, fs, memo, NoToken, 0)
    ELSE IF f.kind = "unreadable" THEN ReadError(key, fs, memo, NoToken, 0)
    ELSE IF f.kind = "corrupt" THEN Returned(JNull, fs, memo, NoToken, 0)
    ELSE LET u == UpdateToken(memo) IN
         IF f.kind = "nondict" THEN ReadError(key, fs, u.memo, u.token, 0)
         ELSE IF u.token = f.token
              THEN Returned(f.value, fs, u.memo, u.token, 0)
              ELSE Returned(JNull, fs, u.memo, u.token, 0)

(* Cache.set *)
CacheSet(fs, memo, key, value, w) ==
    LET u == UpdateToken(memo)
        fs2 == WriteText(fs, key, Entry(Now, u.token, value), w)
    IN  IF w = "ok" THEN Returned(JNull, fs2, u.memo, u.token, 0)
        ELSE WriteError(key, fs2, u.memo, u.token, 0)

(* mutant: the None case is forgotten *)
TtlValidNoNone(f, ttl) == Now - f.ts < ttl

(* mutant: an entry exactly ttl seconds old still counts as valid *)
TtlValidInclusive(f, ttl) == ttl = NoTTL \/ Now - f.ts <= ttl

(* ttl_valid = ttl is None or (now - data.get("_ts", 0) < ttl) *)
TtlValid(f, ttl) == ttl = NoTTL \/ Now - f.ts < ttl

(* mutant: unparseable content is reported as a read error *)
ReadEntryStrict(f, token, ttl, allow_stale) ==
    IF f.kind = "absent"
    THEN [r |-> "miss", stale |-> JNull]
    ELSE IF f.kind \in {"unreadable", "nondict", "corrupt"}
    THEN [r |-> "raise", stale |-> JNull]
    ELSE IF TtlValid(f, ttl) /\ f.token = token
    THEN [r |-> "hit", stale |-> JNull]
    ELSE IF ttl = NoTTL
    THEN [r |-> "raise", stale |-> JNull]
    ELSE [r |-> "miss", stale |-> IF allow_stale THEN f.value ELSE JNull]

(* The read half of Cache.get_or_set (the "if f.exists()" block):          *)
(* "hit", "raise" or "miss"; stale is stale_data, JNull when it is None.   *)
ReadEntry(f, token, ttl, allow_stale) ==
    IF f.kind = "absent" \/ f.kind = "corrupt"
    THEN [r |-> "miss", stale |-> JNull]
    ELSE IF f.kind = "unreadable" \/ f.kind = "nondict"
    THEN [r |-> "raise", stale |-> JNull]
    ELSE IF TtlValid(f, ttl) /\ f.token = token
    THEN [r |-> "hit", stale |-> JNull]
    \* reason = "expired" if (now - _ts >= ttl) else ...: TypeError for ttl None
    ELSE IF ttl = NoTTL
    THEN [r |-> "raise", stale |-> JNull]
    ELSE [r |-> "miss", stale |-> IF allow_stale THEN f.value ELSE JNull]

(* mutant: the stale value also answers a loader failure that is not       *)
(* Transient                                                               *)
GetOrSetStaleOnAnyError(fs, memo, key, ttl, loader, allow_stale, w) ==
    LET u == UpdateToken(memo)
        f == fs[key]
        rd == ReadEntry(f, u.token, ttl, allow_stale)
    IN  IF rd.r = "hit" THEN Returned(f.value, fs, u.memo, u.token, 0)
        ELSE IF rd.r = "raise" THEN ReadError(key, fs, u.memo, u.token, 0)
        ELSE IF loader.does \in {"transient", "error"}
        THEN IF allow_stale /\ rd.stale # JNull
             THEN Returned(rd.stale, fs, u.memo, u.token, 1)
             ELSE Raised(IF loader.does = "error" THEN "LoaderError"
                         ELSE "TransientError", fs, u.memo, u.token, 1)
        ELSE LET fs2 == WriteText(fs, key, Entry(Now, u.token, loader.value), w) IN
             IF w = "ok" THEN Returned(loader.value, fs2, u.memo, u.token, 1)
             ELSE WriteError(key, fs2, u.memo, u.token, 1)

(* mutant: the stale value returned is written back as a new entry *)
GetOrSetStaleRewritten(fs, memo, key, ttl, loader, allow_stale, w) ==
    LET u == UpdateToken(memo)
        f == fs[key]
        rd == ReadEntry(f, u.token, ttl, allow_stale)
    IN  IF rd.r = "hit" THEN Returned(f.value, fs, u.memo, u.token, 0)
        ELSE IF rd.r = "raise" THEN ReadError(key, fs, u.memo, u.token, 0)
        ELSE IF loader.does = "transient"
        THEN IF allow_stale /\ rd.stale # JNull
             THEN Returned(rd.stale,
                           WriteText(fs, key, Entry(Now, u.token, rd.stale), "ok"),
                           u.memo, u.token, 1)
             ELSE Raised("TransientError", fs, u.memo, u.token, 1)
        ELSE IF loader.does = "error"
        THEN Raised("LoaderError", fs, u.memo, u.token, 1)
        ELSE LET fs2 == WriteText(fs, key, Entry(Now, u.token, loader.value), w) IN
             IF w = "ok" THEN Returned(loader.value, fs2, u.memo, u.token, 1)
             ELSE WriteError(key, fs2, u.memo, u.token, 1)

(* Cache.get_or_set; loader is [does |-> "value" | "transient" | "error",  *)
(* value |-> what it returns]                                              *)
GetOrSet(fs, memo, key, ttl, loader, allow_stale, w) ==
    LET u == UpdateToken(memo)
        f == fs[key]
        rd == ReadEntry(f, u.token, ttl, allow_stale)
    IN  IF rd.r = "hit" THEN Returned(f.value, fs, u.memo, u.token, 0)
        ELSE IF rd.r = "raise" THEN ReadError(key, fs, u.memo, u.token, 0)
        ELSE IF loader.does = "transient"
        THEN IF allow_stale /\ rd.stale # JNull
             THEN Returned(rd.stale, fs, u.memo, u.token, 1)
             ELSE Raised("TransientError", fs, u.memo, u.token, 1)
        ELSE IF loader.does = "error"
        THEN Raised("LoaderError", fs, u.memo, u.token, 1)
        ELSE LET fs2 == WriteText(fs, key, Entry(Now, u.token, loader.value), w) IN
             IF w = "ok" THEN Returned(loader.value, fs2, u.memo, u.token, 1)
             ELSE WriteError(key, fs2, u.memo, u.token, 1)

----------------------------------------------------------------------------
(* Packages (core/models.py) *)

(* PackageKind members and their values *)
Kinds == {"FORMULA", "CASK"}
KindValue(kind) == IF kind = "FORMULA" THEN "formula" ELSE "cask"
KindOf(value) == IF value = "formula" THEN "FORMULA" ELSE "CASK"

(* PackageStatus(Flag): NONE = 0, then auto() *)
Flags == {"OUTDATED", "PINNED", "NOT_LINKED", "KEG_ONLY", "HEAD", "HAS_SERVICE"}
FlagValue(flag) ==
    CASE flag = "OUTDATED" -> 1
      [] flag = "PINNED" -> 2
      [] flag = "NOT_LINKED" -> 4
      [] flag = "KEG_ONLY" -> 8
      [] flag = "HEAD" -> 16
      [] flag = "HAS_SERVICE" -> 32

RECURSIVE SumFlags(_)
SumFlags(fs) ==
    IF fs = {} THEN 0
    ELSE LET f == CHOOSE x \in fs : TRUE IN FlagValue(f) + SumFlags(fs \ {f})

(* PackageStatus(n): the flags whose bit is set in n *)
FlagsOf(n) == {f \in Flags : (n \div FlagValue(f)) % 2 = 1}

(* A datetime is <<seconds, microseconds>>, None is <<>>.                   *)
(* datetime.isoformat: the text has a fraction only when there are         *)
(* microseconds.  The text is the sequence of its numbers; None stays None *)
Isoformat(dt) ==
    IF dt = <<>> THEN <<>>
    ELSE IF dt[2] = 0 THEN <<dt[1]>> ELSE <<dt[1], dt[2]>>

(* datetime.fromisoformat(text) if text else None *)
FromIsoformat(text) ==
    IF text = <<>> THEN <<>>
    ELSE <<text[1], IF Len(text) = 2 THEN text[2] ELSE 0>>

(* dataclasses.asdict on a Dependency; a Dependency from its dict *)
DepToDict(d) ==
    [name |-> d.name, optional |-> d.optional, build |-> d.build, test |-> d.test]
DepFromDict(d) ==
    [name |-> d.name, optional |-> d.optional, build |-> d.build, test |-> d.test]

(* Package(name=, kind=, versions=, status=): installed_on None, no deps.  *)
(* desc, size_kb, used_by, tap, path and metadata hold strings, numbers    *)
(* and None, which both conversions hand on as they are; they are left out *)
Package(name, kind, versions, status) ==
    [name |-> name, kind |-> kind, versions |-> versions, status |-> status,
     installed_on |-> <<>>, deps |-> <<>>]

(* mutant: the status flags are not written *)
ToSerializableDictNoStatus(p) ==
    [name |-> p.name, kind |-> KindValue(p.kind), versions |-> p.versions,
     status |-> 0, installed_on |-> Isoformat(p.installed_on),
     deps |-> [i \in 1..Len(p.deps) |-> DepToDict(p.deps[i])]]

(* Package.to_serializable_dict: enums become their values, datetimes      *)
(* their ISO text, dataclasses dicts                                       *)
ToSerializableDict(p) ==
    [name |-> p.name, kind |-> KindValue(p.kind), versions |-> p.versions,
     status |-> SumFlags(p.status), installed_on |-> Isoformat(p.installed_on),
     deps |-> [i \in 1..Len(p.deps) |-> DepToDict(p.deps[i])]]

(* mutant: the fraction of the second is not read back *)
PackageFromDictWholeSeconds(d) ==
    [name |-> d.name, kind |-> KindOf(d.kind), versions |-> d.versions,
     status |-> FlagsOf(d.status),
     installed_on |-> IF d.installed_on = <<>> THEN <<>>
                      ELSE <<d.installed_on[1], 0>>,
     deps |-> [i \in 1..Len(d.deps) |-> DepFromDict(d.deps[i])]]

(* Package.package_from_dict *)
PackageFromDict(d) ==
    [name |-> d.name, kind |-> KindOf(d.kind), versions |-> d.versions,
     status |-> FlagsOf(d.status),
     installed_on |-> FromIsoformat(d.installed_on),
     deps |-> [i \in 1..Len(d.deps) |-> DepFromDict(d.deps[i])]]

ToDicts(pkgs) == [i \in 1..Len(pkgs) |-> ToSerializableDict(pkgs[i])]
FromDicts(ds) == [i \in 1..Len(ds) |-> PackageFromDict(ds[i])]

----------------------------------------------------------------------------
(* The external tool.  brew.mode: "up"; "fail" (every command exits        *)
(* non-zero with empty stdout); "hang" (every command runs into the        *)
(* timeout).  brew.formulae / brew.casks: the installed names in the order *)
(* the tool reports them.                                                  *)

FormulaNames == {"a", "B"}
CaskNames == {"a"}
(* a name the tool has never heard of *)
UnknownName == "zz"
Names == FormulaNames \cup CaskNames \cup {UnknownName}
BrewModes == {"up", "fail", "hang"}

(* the record "brew info --json=v2" prints for a formula.  "u" is a        *)
(* formula that has been unlinked ("brew unlink u"): "linked_keg": null    *)
RawFormula(name, installed) ==
    IF name = "a"
    THEN [name |-> name, installed |-> IF installed THEN <<"1.0">> ELSE <<>>,
          stable |-> "1.0", outdated |-> FALSE, pinned |-> FALSE,
          keg_only |-> FALSE, linked_keg |-> installed]
    ELSE IF name = "u"
    THEN [name |-> name, installed |-> IF installed THEN <<"1.0">> ELSE <<>>,
          stable |-> "1.0", outdated |-> FALSE, pinned |-> FALSE,
          keg_only |-> FALSE, linked_keg |-> FALSE]
    ELSE [name |-> name, installed |-> IF installed THEN <<"1.0">> ELSE <<>>,
          stable |-> "2.0", outdated |-> installed, pinned |-> installed,
          keg_only |-> FALSE, linked_keg |-> FALSE]

(* the record "brew info --json=v2 --cask" prints for a cask *)
RawCask(name) == [token |-> name, version |-> "3.1"]

(* info.get("version", {}).get("outdated") *)
VersionOutdated(info) ==
    /\ "version" \in DOMAIN info
    /\ "outdated" \in DOMAIN info.version
    /\ info.version.outdated

(* any(s.get("service") for s in info.get("service", [])) *)
AnyService(info) ==
    /\ "service" \in DOMAIN info
    /\ \E i \in 1..Len(info.service) : info.service[i].service

(* mutant: a pinned package counts as outdated *)
DeriveStatusPinnedOutdated(info) ==
    (IF info.outdated \/ VersionOutdated(info) \/ info.pinned
     THEN {"OUTDATED"} ELSE {})
    \cup (IF info.pinned THEN {"PINNED"} ELSE {})
    \cup (IF info.keg_only THEN {"KEG_ONLY"} ELSE {})
    \cup (IF ~info.linked_keg /\ info.installed # <<>> THEN {"NOT_LINKED"} ELSE {})
    \cup (IF AnyService(info) THEN {"HAS_SERVICE"} ELSE {})

(* analysis/status.py derive_status.  The dict brew_formula hands it has   *)
(* no "version" and no "service" key.  linked_keg: TRUE for the name of a  *)
(* keg, FALSE for None and for ""                                          *)
DeriveStatus(info) ==
    (IF info.outdated \/ VersionOutdated(info) THEN {"OUTDATED"} ELSE {})
    \cup (IF info.pinned THEN {"PINNED"} ELSE {})
    \cup (IF info.keg_only THEN {"KEG_ONLY"} ELSE {})
    \cup (IF ~info.linked_keg /\ info.installed # <<>> THEN {"NOT_LINKED"} ELSE {})
    \cup (IF AnyService(info) THEN {"HAS_SERVICE"} ELSE {})

(* mutant: the latest version is appended whatever is installed *)
FormulaPackageAppendsLatest(f) ==
    Package(f.name, "FORMULA", Append(f.installed, f.stable), DeriveStatus(f))

(* brew_formula: one raw record to a Package *)
FormulaPackage(f) ==
    LET versions == f.installed
        latest == f.stable
        vs == IF versions = <<>> \/ versions[Len(versions)] # latest
              THEN Append(versions, latest) ELSE versions
    IN  Package(f.name, "FORMULA", vs, DeriveStatus(f))

(* brew_cask: one raw record to a Package *)
CaskPackage(c) == Package(c.token, "CASK", <<c.version>>, {})

(* Provider results: [ok, exc, pkgs] *)
Fetched(pkgs) == [ok |-> TRUE, exc |-> "none", pkgs |-> pkgs]
FetchFailed(e) == [ok |-> FALSE, exc |-> e, pkgs |-> <<>>]

(* brew_formula.list_installed: run_json raises a Transient error (after   *)
(* its retries) when the command exits non-zero or times out               *)
FormulaListInstalled ==
    IF brew.mode = "up"
    THEN Fetched([i \in 1..Len(brew.formulae) |->
                     FormulaPackage(RawFormula(brew.formulae[i], TRUE))])
    ELSE FetchFailed("TransientError")

(* brew_cask.list_installed: "brew list --cask" goes through run_capture,  *)
(* whose exit code is ignored                                              *)
CaskListInstalled ==
    IF brew.mode = "up"
    THEN Fetched([i \in 1..Len(brew.casks) |-> CaskPackage(RawCask(brew.casks[i]))])
    ELSE IF brew.mode = "fail" THEN Fetched(<<>>)
    ELSE FetchFailed("TransientError")

(* brew_formula.info / brew_cask.info: the tool answers for every package  *)
(* it knows, installed or not, and exits non-zero for any other name       *)
InSeq(x, s) == \E i \in 1..Len(s) : s[i] = x

FormulaInfo(name) ==
    IF brew.mode = "up" /\ name \in FormulaNames
    THEN Fetched(<<FormulaPackage(RawFormula(name, InSeq(name, brew.formulae)))>>)
    ELSE FetchFailed("TransientError")

CaskInfo(name) ==
    IF brew.mode = "up" /\ name \in CaskNames
    THEN Fetched(<<CaskPackage(RawCask(name))>>)
    ELSE FetchFailed("TransientError")

----------------------------------------------------------------------------
(* Repository._fetch_pkgs: pkgs.sort(key=(p.kind.value, p.name.lower()))   *)

Lower(name) == IF name = "B" THEN "b" ELSE name

(* position of a string in Python's string order, over the strings used *)
StrRank(str) ==
    CASE str = "a" -> 1
      [] str = "b" -> 2
      [] str = "cask" -> 3
      [] str = "formula" -> 4
      [] str = "zz" -> 5

(* mutant: the sort key is the kind alone *)
SortKeyLessKindOnly(p, q) ==
    StrRank(KindValue(p.kind)) < StrRank(KindValue(q.kind))

(* key=lambda p: (p.kind.value, p.name.lower()), compared as tuples *)
SortKeyLess(p, q) ==
    \/ StrRank(KindValue(p.kind)) < StrRank(KindValue(q.kind))
    \/ /\ KindValue(p.kind) = KindValue(q.kind)
       /\ StrRank(Lower(p.name)) < StrRank(Lower(q.name))

(* insert p after every element that is not greater: the sort is stable *)
RECURSIVE InsertSorted(_, _)
InsertSorted(p, s) ==
    IF s = <<>> THEN <<p>>
    ELSE IF SortKeyLess(p, Head(s)) THEN <<p>> \o s
    ELSE <<Head(s)>> \o InsertSorted(p, Tail(s))

RECURSIVE SortPkgs(_)
SortPkgs(s) ==
    IF s = <<>> THEN <<>>
    ELSE InsertSorted(s[Len(s)], SortPkgs(SubSeq(s, 1, Len(s) - 1)))

FetchPkgs(flt) ==
    LET fr == IF flt \in {"all", "formula"} THEN FormulaListInstalled ELSE Fetched(<<>>)
        cr == IF flt \in {"all", "cask"} THEN CaskListInstalled ELSE Fetched(<<>>)
    IN  IF ~fr.ok THEN [ok |-> FALSE, exc |-> fr.exc, pkgs |-> <<>>,
                        calls |-> 1]
        ELSE IF ~cr.ok THEN [ok |-> FALSE, exc |-> cr.exc, pkgs |-> <<>>,
                             calls |-> IF flt = "all" THEN 2 ELSE 1]
        ELSE [ok |-> TRUE, exc |-> "none", pkgs |-> SortPkgs(fr.pkgs \o cr.pkgs),
              calls |-> IF flt = "all" THEN 2 ELSE 1]

(* _fetch_pkgs step by step.  A query is "idle" (not started), "running"   *)
(* (its coroutine is awaited), "done" or "failed".                         *)
(*   pc    "idle", "await_formula", "await_cask" or "done"                 *)
(*   pkgs  the list built so far; res the outcome once pc = "done"         *)
FetchIdle ==
    [pc |-> "idle", flt |-> "", formula |-> "idle", cask |-> "idle",
     pkgs |-> <<>>, res |-> "none", exc |-> "none"]

(* "pkgs.sort(...); return pkgs" *)
FetchReturn(f) == [f EXCEPT !.pc = "done", !.res = "return", !.pkgs = SortPkgs(@)]

(* the exception of a query leaves _fetch_pkgs *)
FetchRaise(f, e) == [f EXCEPT !.pc = "done", !.res = "raise", !.exc = e, !.pkgs = <<>>]

(* "await brew_cask.list_installed()" is reached: the cask query starts *)
FetchStartCask(f) == [f EXCEPT !.pc = "await_cask", !.cask = "running"]

(* _fetch_pkgs(kind_filter) is called and runs up to its first await *)
FetchEnter(flt) ==
    LET f == [FetchIdle EXCEPT !.flt = flt] IN
    IF flt \in {"all", "formula"}
    THEN [f EXCEPT !.pc = "await_formula", !.formula = "running"]
    ELSE FetchStartCask(f)

(* "await brew_formula.list_installed()" ends with q; _fetch_pkgs runs on  *)
(* to its next await or to its end                                         *)
FetchAfterFormula(f, q) ==
    IF ~q.ok THEN FetchRaise([f EXCEPT !.formula = "failed"], q.exc)
    ELSE LET g == [f EXCEPT !.formula = "done", !.pkgs = @ \o q.pkgs] IN
         IF f.flt = "all" THEN FetchStartCask(g) ELSE FetchReturn(g)

(* mutant: after a failed cask query the formulae alone are returned *)
FetchAfterCaskPartial(f, q) ==
    IF ~q.ok THEN FetchReturn([f EXCEPT !.cask = "failed"])
    ELSE FetchReturn([f EXCEPT !.cask = "done", !.pkgs = @ \o q.pkgs])

(* "await brew_cask.list_installed()" ends with q *)
FetchAfterCask(f, q) ==
    IF ~q.ok THEN FetchRaise([f EXCEPT !.cask = "failed"], q.exc)
    ELSE FetchReturn([f EXCEPT !.cask = "done", !.pkgs = @ \o q.pkgs])

----------------------------------------------------------------------------
(* Repository (core/repo.py) *)

HasName(items, name) == \E i \in 1..Len(items) : items[i].name = name
Lookup(items, name) == items[CHOOSE i \in 1..Len(items) : items[i].name = name]

(* mapping = {p["name"]: p for p in pkgs_dicts}: a repeated name keeps its *)
(* first position and takes the later record                               *)
RECURSIVE BuildMapping(_)
BuildMapping(dicts) ==
    IF dicts = <<>> THEN <<>>
    ELSE LET init == BuildMapping(SubSeq(dicts, 1, Len(dicts) - 1))
             d == dicts[Len(dicts)]
         IN  IF HasName(init, d.name)
             THEN [i \in 1..Len(init) |-> IF init[i].name = d.name THEN d ELSE init[i]]
             ELSE Append(init, d)

(* Repository._refresh_cache: [ok, exc, pkgs, mapping, files, memo, calls, *)
(* listFailed]                                                             *)
RefreshCache(fs, memo, flt, w1, w2) ==
    LET ft == FetchPkgs(flt) IN
    IF ~ft.ok
    THEN [ok |-> FALSE, exc |-> ft.exc, pkgs |-> <<>>, mapping |-> <<>>,
          files |-> fs, memo |-> memo, calls |-> ft.calls, listFailed |-> FALSE]
    ELSE LET dicts == ToDicts(ft.pkgs)
             mapping == BuildMapping(dicts)
             s1 == CacheSet(fs, memo, ListKey(flt), JList(dicts), w1)
             \* a CacheError from the first set skips the second
             s2 == IF s1.outcome = "return"
                   THEN CacheSet(s1.files, s1.memo, MapKey(flt), JDict(mapping), w2)
                   ELSE s1
         IN  [ok |-> TRUE, exc |-> "none", pkgs |-> ft.pkgs, mapping |-> mapping,
              files |-> s2.files, memo |-> s2.memo, calls |-> ft.calls,
              listFailed |-> s1.outcome = "raise"]

(* error context: PackageNotFoundError(package=name, kind=kind.value) *)
NoCtx == [package |-> "", kind |-> ""]
NotFoundCtx(name, kind) == [package |-> name, kind |-> KindValue(kind)]

(* Results of the Repository operations:                                   *)
(*   outcome, exc, ctx   how the call ended                                *)
(*   pkgs                the packages returned (one for get_details)       *)
(*   calls               provider calls made (list_installed / info)       *)
(*   layer               what produced the answer                          *)
RepoReturned(pkgs, fs, memo, calls, layer, listFailed) ==
    [outcome |-> "return", exc |-> "none", ctx |-> NoCtx, pkgs |-> pkgs,
     files |-> fs, memo |-> memo, calls |-> calls, layer |-> layer,
     listFailed |-> listFailed]

RepoRaised(e, ctx, fs, memo, calls, layer) ==
    [outcome |-> "raise", exc |-> e, ctx |-> ctx, pkgs |-> <<>>,
     files |-> fs, memo |-> memo, calls |-> calls, layer |-> layer,
     listFailed |-> FALSE]

(* mutant: a cached list of one package is fetched again *)
NonEmptyHitSeveral(g) ==
    g.outcome = "return" /\ g.value # JNull /\ Len(g.value.items) > 1

(* "cached_data is not None and not cached_data == []" *)
NonEmptyHit(g) == g.outcome = "return" /\ g.value # JNull /\ g.value # JList(<<>>)

(* mutant: after a CacheError of the read nothing is fetched *)
GetAllInstalledErrorEmpty(fs, memo, flt, w1, w2) ==
    LET g == CacheGet(fs, memo, ListKey(flt)) IN
    IF g.outcome = "raise"
    THEN RepoReturned(<<>>, fs, g.memo, 0, "cache", FALSE)
    ELSE IF NonEmptyHit(g)
    THEN RepoReturned(FromDicts(g.value.items), fs, g.memo, 0, "cache", FALSE)
    ELSE LET r == RefreshCache(fs, g.memo, flt, w1, w2) IN
         IF ~r.ok THEN RepoRaised(r.exc, NoCtx, r.files, r.memo, r.calls, "refresh")
         ELSE RepoReturned(r.pkgs, r.files, r.memo, r.calls, "refresh", r.listFailed)

(* Repository.get_all_installed *)
GetAllInstalled(fs, memo, flt, w1, w2) ==
    LET g == CacheGet(fs, memo, ListKey(flt)) IN
    IF NonEmptyHit(g)
    THEN RepoReturned(FromDicts(g.value.items), fs, g.memo, 0, "cache", FALSE)
    ELSE LET r == RefreshCache(fs, g.memo, flt, w1, w2) IN
         IF ~r.ok THEN RepoRaised(r.exc, NoCtx, r.files, r.memo, r.calls, "refresh")
         ELSE RepoReturned(r.pkgs, r.files, r.memo, r.calls, "refresh", r.listFailed)

(* Repository.get_details, layer 4: the provider's info(name); every       *)
(* exception becomes PackageNotFoundError(package=name, kind=kind.value)   *)
DirectQuery(fs, memo, name, kind, calls) ==
    LET q == IF kind = "FORMULA" THEN FormulaInfo(name) ELSE CaskInfo(name) IN
    IF q.ok THEN RepoReturned(q.pkgs, fs, memo, calls + 1, "backend", FALSE)
    ELSE RepoRaised("PackageNotFoundError", NotFoundCtx(name, kind), fs, memo,
                    calls + 1, "backend")

(* Repository.get_details, layer 3 onwards: the forced refresh *)
RefreshLayer(fs, memo, name, kind, w1, w2) ==
    LET r == RefreshCache(fs, memo, KindValue(kind), w1, w2) IN
    IF ~r.ok THEN RepoRaised(r.exc, NoCtx, r.files, r.memo, r.calls, "refresh")
    ELSE IF HasName(r.mapping, name)
    THEN RepoReturned(<<PackageFromDict(Lookup(r.mapping, name))>>, r.files, r.memo,
                      r.calls, "refresh", r.listFailed)
    ELSE DirectQuery(r.files, r.memo, name, kind, r.calls)

(* Repository.get_details, layer 2 onwards: the list cache *)
ListLayer(fs, memo, name, kind, w1, w2) ==
    LET g == CacheGet(fs, memo, ListKey(KindValue(kind))) IN
    IF NonEmptyHit(g) /\ HasName(g.value.items, name)
    THEN RepoReturned(<<PackageFromDict(Lookup(g.value.items, name))>>, fs, g.memo,
                      0, "list", FALSE)
    ELSE RefreshLayer(fs, g.memo, name, kind, w1, w2)

(* mutant: a CacheError of the map read is not caught *)
GetDetailsCacheErrorEscapes(fs, memo, name, kind, w1, w2) ==
    LET g == CacheGet(fs, memo, MapKey(KindValue(kind))) IN
    IF g.outcome = "raise"
    THEN RepoRaised(g.exc, NoCtx, fs, g.memo, 0, "map")
    ELSE IF NonEmptyHit(g)
    THEN IF HasName(g.value.items, name)
         THEN RepoReturned(<<PackageFromDict(Lookup(g.value.items, name))>>, fs,
                           g.memo, 0, "map", FALSE)
         ELSE RepoRaised("KeyError", NoCtx, fs, g.memo, 0, "map")
    ELSE ListLayer(fs, g.memo, name, kind, w1, w2)

(* mutant: the list cache is asked before the map cache *)
GetDetailsListFirst(fs, memo, name, kind, w1, w2) ==
    LET l == CacheGet(fs, memo, ListKey(KindValue(kind)))
        g == CacheGet(fs, l.memo, MapKey(KindValue(kind)))
    IN  IF NonEmptyHit(l) /\ HasName(l.value.items, name)
        THEN RepoReturned(<<PackageFromDict(Lookup(l.value.items, name))>>, fs,
                          l.memo, 0, "list", FALSE)
        ELSE IF NonEmptyHit(g)
        THEN IF HasName(g.value.items, name)
             THEN RepoReturned(<<PackageFromDict(Lookup(g.value.items, name))>>,
                               fs, g.memo, 0, "map", FALSE)
             ELSE RepoRaised("KeyError", NoCtx, fs, g.memo, 0, "map")
        ELSE RefreshLayer(fs, g.memo, name, kind, w1, w2)

(* Repository.get_details: layer 1, cached_data[name] on the map cache *)
GetDetails(fs, memo, name, kind, w1, w2) ==
    LET g == CacheGet(fs, memo, MapKey(KindValue(kind))) IN
    IF NonEmptyHit(g)
    THEN IF HasName(g.value.items, name)
         THEN RepoReturned(<<PackageFromDict(Lookup(g.value.items, name))>>, fs,
                           g.memo, 0, "map", FALSE)
         ELSE RepoRaised("KeyError", NoCtx, fs, g.memo, 0, "map")
    ELSE ListLayer(fs, g.memo, name, kind, w1, w2)

----------------------------------------------------------------------------
(* The shell executor (core/shell.py) and the retry wrapper               *)
(* (core/errors.py retry_on_transient)                                     *)

(* Text is a sequence of characters.  str.strip() *)
Whitespace == {" ", "\n"}

RECURSIVE StripLeft(_)
StripLeft(t) ==
    IF t # <<>> /\ Head(t) \in Whitespace THEN StripLeft(Tail(t)) ELSE t

RECURSIVE StripRight(_)
StripRight(t) ==
    IF t # <<>> /\ t[Len(t)] \in Whitespace
    THEN StripRight(SubSeq(t, 1, Len(t) - 1)) ELSE t

Strip(t) == StripRight(StripLeft(t))

(* " ".join(cmd) *)
RECURSIVE JoinCmd(_)
JoinCmd(cmd) ==
    IF cmd = <<>> THEN ""
    ELSE IF Len(cmd) = 1 THEN cmd[1]
    ELSE cmd[1] \o " " \o JoinCmd(Tail(cmd))

(* out[:200] *)
PreviewLen == 200
Preview(out) == SubSeq(out, 1, IF Len(out) < PreviewLen THEN Len(out) ELSE PreviewLen)

(* json.loads on the texts the model uses: "{}" and "[]" parse, nothing    *)
(* else does (the empty text included)                                     *)
JsonLoads(t) ==
    IF t = <<"{", "}">> THEN [ok |-> TRUE, value |-> JDict(<<>>)]
    ELSE IF t = <<"[", "]">> THEN [ok |-> TRUE, value |-> JList(<<>>)]
    ELSE [ok |-> FALSE, value |-> JNull]

(* Exceptions: the class raised and its context.  ErrorKind is the         *)
(* top-level class it derives from.                                        *)
NoError == [type |-> "none", ctx |-> [none |-> TRUE]]
Error(type, ctx) == [type |-> type, ctx |-> ctx]

ErrorKind(type) ==
    CASE type \in {"TransientError", "BrewCommandError", "BrewTimeoutError"}
            -> "Transient"
      [] type \in {"UserError", "PackageNotFoundError"} -> "User"
      [] type \in {"SystemError", "CacheError"} -> "System"
      [] OTHER -> "Other"

(* What the subprocess does: it cannot be started; it does not finish      *)
(* within the timeout (and kill() then works or raises); or it exits with  *)
(* a code, stdout and stderr.                                              *)
Spawned(code, out, err) ==
    [how |-> "exit", kill_ok |-> TRUE, code |-> code, out |-> out, err |-> err]
Hung(kill_ok) ==
    [how |-> "timeout", kill_ok |-> kill_ok, code |-> 0, out |-> <<>>, err |-> <<>>]
NotStarted ==
    [how |-> "spawn_error", kill_ok |-> TRUE, code |-> 0, out |-> <<>>, err |-> <<>>]

(* Results of run_capture and run_json; kill: whether process.kill() was   *)
(* called, and how it went                                                 *)
ShellReturned(value) ==
    [outcome |-> "return", value |-> value, exc |-> NoError, kill |-> "none"]
ShellRaised(e) ==
    [outcome |-> "raise", value |-> JNull, exc |-> e, kill |-> "none"]

(* mutant: an exception of process.kill() escapes instead of the timeout   *)
(* error                                                                   *)
RunCaptureKillEscapes(proc, cmd, timeout) ==
    IF proc.how = "spawn_error" THEN ShellRaised(Error("OSError", [none |-> TRUE]))
    ELSE IF proc.how = "timeout"
    THEN IF proc.kill_ok
         THEN [ShellRaised(Error("BrewTimeoutError",
                                 [command |-> JoinCmd(cmd), timeout |-> timeout]))
                 EXCEPT !.kill = "done"]
         ELSE [ShellRaised(Error("OSError", [none |-> TRUE]))
                 EXCEPT !.kill = "failed"]
    ELSE ShellReturned([out |-> Strip(proc.out), err |-> Strip(proc.err),
                        code |-> proc.code])

(* run_capture; duration_ms, a measurement, is left out of the context *)
RunCapture(proc, cmd, timeout) ==
    IF proc.how = "spawn_error" THEN ShellRaised(Error("OSError", [none |-> TRUE]))
    ELSE IF proc.how = "timeout"
    THEN [ShellRaised(Error("BrewTimeoutError",
                            [command |-> JoinCmd(cmd), timeout |-> timeout]))
            EXCEPT !.kill = IF proc.kill_ok THEN "done" ELSE "failed"]
    ELSE ShellReturned([out |-> Strip(proc.out), err |-> Strip(proc.err),
                        code |-> proc.code])

(* mutant: run_json parses the output whatever the exit code *)
RunJsonOnceAnyExit(proc, cmd, timeout) ==
    LET c == RunCapture(proc, cmd, timeout) IN
    IF c.outcome = "raise" THEN c
    ELSE LET j == JsonLoads(c.value.out) IN
         IF j.ok THEN ShellReturned(j.value)
         ELSE ShellRaised(Error("BrewCommandError",
                [command |-> JoinCmd(cmd), error |-> <<"JSONDecodeError">>,
                 output_preview |-> IF c.value.out # <<>>
                                    THEN Preview(c.value.out) ELSE <<>>]))

(* the body of run_json, one attempt *)
RunJsonOnce(proc, cmd, timeout) ==
    LET c == RunCapture(proc, cmd, timeout) IN
    IF c.outcome = "raise" THEN c
    ELSE IF c.value.code # 0
    THEN ShellRaised(Error("BrewCommandError",
            [command |-> JoinCmd(cmd), returncode |-> c.value.code,
             error |-> IF c.value.err # <<>> THEN c.value.err ELSE c.value.out]))
    ELSE LET j == JsonLoads(c.value.out) IN
         IF j.ok THEN ShellReturned(j.value)
         ELSE ShellRaised(Error("BrewCommandError",
                [command |-> JoinCmd(cmd), error |-> <<"JSONDecodeError">>,
                 output_preview |-> IF c.value.out # <<>>
                                    THEN Preview(c.value.out) ELSE <<>>]))

(* retry_on_transient(max_retries=3, base_delay=1.0, backoff=2.0) *)
DefaultMaxRetries == 3
DefaultBaseDelay == 1
DefaultBackoff == 2

(* decorator arguments explored for an arbitrary wrapped function *)
MaxRetries == 3
MaxBaseDelay == 2
MaxBackoff == 2

(* run_capture: timeout = 30 unless given; the commands and timeouts used *)
DefaultTimeout == 30
Commands == {<<"brew", "list", "--cask">>,
             <<"brew", "info", "--json=v2", "--installed">>}
ShellTimeouts == {DefaultTimeout, 5}

LongOutput == [i \in 1..(PreviewLen + 1) |-> "x"]
Outputs == {<<>>, <<"{", "}", "\n">>, <<"[", "]">>, <<"o", "o", "p", "s">>,
            LongOutput}
ErrOutputs == {<<>>, <<"E", "\n">>}
ExitCodes == {0, 1}
Procs == {NotStarted, Hung(TRUE), Hung(FALSE)}
         \cup {Spawned(c, o, e) : c \in ExitCodes, o \in Outputs, e \in ErrOutputs}
NoProc == [how |-> "none", kill_ok |-> TRUE, code |-> 0, out |-> <<>>, err |-> <<>>]

(* what one invocation of an arbitrary wrapped function may do; the error  *)
(* it raises on attempt k carries k in its context                         *)
FuncOutcomes(k) ==
    {ShellReturned(JList(<<>>))}
    \cup {ShellRaised(Error(t, [attempt |-> k])) :
            t \in {"TransientError", "UserError", "SystemError", "ValueError"}}

RECURSIVE Pow(_, _)
Pow(b, n) == IF n = 0 THEN 1 ELSE b * Pow(b, n - 1)

(* mutant: the exponent is the attempt itself *)
DelayOneAhead(base, backoff, attempt) == base * Pow(backoff, attempt)

(* delay = base_delay * (backoff ** (attempt - 1)) *)
Delay(base, backoff, attempt) == base * Pow(backoff, attempt - 1)

(* The wrapper's state:                                                    *)
(*   pc       "idle", "attempt" (about to invoke func), "sleep" (inside    *)
(*            asyncio.sleep) or "done"                                     *)
(*   op       "func", "run_json", or "run_capture" (called directly)       *)
(*   n, base, backoff   max_retries, base_delay, backoff                   *)
(*   attempt  the loop variable                                            *)
(*   calls    invocations of the wrapped function so far                   *)
(*   slept    the delays slept so far, in order                            *)
(*   last_error, proc   the last Transient error caught, what the last     *)
(*            subprocess did                                               *)
(*   last     how the last invocation of the wrapped function ended        *)
(*   res      how the call ended                                           *)
RetryIdle ==
    [pc |-> "idle", op |-> "", cmd |-> <<>>, timeout |-> 0, n |-> 0, base |-> 0,
     backoff |-> 0, attempt |-> 0, calls |-> 0, slept |-> <<>>,
     last_error |-> NoError, proc |-> NoProc, last |-> ShellReturned(JNull),
     res |-> ShellReturned(JNull)]

(* the wrapper is entered: "for attempt in range(1, max_retries + 1)";     *)
(* with an empty range "raise last_error" raises TypeError, last_error     *)
(* being None                                                              *)
RetryEnter(op, cmd, timeout, n, base, backoff) ==
    LET r == [RetryIdle EXCEPT !.op = op, !.cmd = cmd, !.timeout = timeout,
                               !.n = n, !.base = base, !.backoff = backoff]
    IN  IF n >= 1 THEN [r EXCEPT !.pc = "attempt", !.attempt = 1]
        ELSE [r EXCEPT !.pc = "done",
                       !.res = ShellRaised(Error("TypeError", [none |-> TRUE]))]

(* mutant: the wrapper gives up one attempt early *)
RetryStepEarly(r, o, proc) ==
    LET c == [r EXCEPT !.calls = r.calls + 1, !.proc = proc, !.last = o] IN
    IF o.outcome = "return" THEN [c EXCEPT !.pc = "done", !.res = o]
    ELSE IF ErrorKind(o.exc.type) # "Transient"
    THEN [c EXCEPT !.pc = "done", !.res = o]
    ELSE IF r.attempt >= r.n - 1
    THEN [c EXCEPT !.pc = "done", !.res = o, !.last_error = o.exc]
    ELSE [c EXCEPT !.pc = "sleep", !.last_error = o.exc]

(* mutant: every exception is retried, Transient or not *)
RetryStepAnyError(r, o, proc) ==
    LET c == [r EXCEPT !.calls = r.calls + 1, !.proc = proc, !.last = o] IN
    IF o.outcome = "return" THEN [c EXCEPT !.pc = "done", !.res = o]
    ELSE IF r.attempt = r.n
    THEN [c EXCEPT !.pc = "done", !.res = o, !.last_error = o.exc]
    ELSE [c EXCEPT !.pc = "sleep", !.last_error = o.exc]

(* one pass through the loop body up to the return, the raise or the sleep *)
RetryStep(r, o, proc) ==
    LET c == [r EXCEPT !.calls = r.calls + 1, !.proc = proc, !.last = o] IN
    IF o.outcome = "return" THEN [c EXCEPT !.pc = "done", !.res = o]
    ELSE IF ErrorKind(o.exc.type) # "Transient"
    THEN [c EXCEPT !.pc = "done", !.res = o]
    ELSE IF r.attempt = r.n
    THEN [c EXCEPT !.pc = "done", !.res = o, !.last_error = o.exc]
    ELSE [c EXCEPT !.pc = "sleep", !.last_error = o.exc]

----------------------------------------------------------------------------
(* The command line (cli/main.py) *)

(* Exit Codes *)
EXIT_SUCCESS == 0
EXIT_USER_ERROR == 1
EXIT_SYSTEM_ERROR == 2
EXIT_TRANSIENT_ERROR == 3

(* the exception classes of core/errors.py and the builtin ones the model  *)
(* meets; Base is the class a class derives from                           *)
BrewClasses == {"BrewError", "TransientError", "UserError", "SystemError",
                "BrewCommandError", "BrewTimeoutError", "PackageNotFoundError",
                "CacheError"}
BuiltinClasses == {"ValueError", "KeyError", "OSError", "TypeError"}

Base(cls) ==
    CASE cls \in {"TransientError", "UserError", "SystemError"} -> "BrewError"
      [] cls \in {"BrewCommandError", "BrewTimeoutError"} -> "TransientError"
      [] cls = "PackageNotFoundError" -> "UserError"
      [] cls = "CacheError" -> "SystemError"
      [] OTHER -> "Exception"

RECURSIVE IsInstance(_, _)
IsInstance(type, cls) ==
    \/ type = cls
    \/ type # "Exception" /\ IsInstance(Base(type), cls)

(* getattr(error, "context", {}).get("package", "") *)
ContextPackage(e) == IF "package" \in DOMAIN e.ctx THEN e.ctx.package ELSE ""

(* what handle_error returns and whether it prints suggest_search(package) *)
Handled(code, suggested, package) ==
    [code |-> code, suggested |-> suggested, package |-> package]

(* mutant: the SystemError branch is missing *)
HandleErrorNoSystemBranch(e) ==
    IF IsInstance(e.type, "BrewError")
    THEN LET nf == IsInstance(e.type, "PackageNotFoundError")
             code == IF IsInstance(e.type, "TransientError")
                     THEN EXIT_TRANSIENT_ERROR
                     ELSE EXIT_USER_ERROR
         IN  Handled(code, nf, IF nf THEN ContextPackage(e) ELSE "")
    ELSE Handled(EXIT_SYSTEM_ERROR, FALSE, "")

(* handle_error *)
HandleError(e) ==
    IF IsInstance(e.type, "BrewError")
    THEN LET nf == IsInstance(e.type, "PackageNotFoundError")
             code == IF IsInstance(e.type, "TransientError")
                     THEN EXIT_TRANSIENT_ERROR
                     ELSE IF IsInstance(e.type, "UserError")
                     THEN EXIT_USER_ERROR
                     ELSE IF IsInstance(e.type, "SystemError")
                     THEN EXIT_SYSTEM_ERROR
                     ELSE EXIT_USER_ERROR
         IN  Handled(code, nf, IF nf THEN ContextPackage(e) ELSE "")
    ELSE Handled(EXIT_SYSTEM_ERROR, FALSE, "")

(* the contexts the program gives its exceptions *)
ErrorContexts ==
    {NoContext}
    \cup {NotFoundCtx(n, k) : n \in Names, k \in Kinds}
    \cup {CacheErrorCtx(key, Namespace, "", "read") : key \in Keys}
    \cup {CacheErrorCtx(key, Namespace, FilePath(key), "write") : key \in Keys}
    \cup {[command |-> JoinCmd(cmd), timeout |-> t] :
            cmd \in Commands, t \in ShellTimeouts}
    \cup {[command |-> JoinCmd(cmd), returncode |-> 1, error |-> <<"E">>] :
            cmd \in Commands}

(* the exceptions a command may hand to handle_error *)
Errors == {Error(t, c) : t \in BrewClasses \cup BuiltinClasses, c \in ErrorContexts}

(* no function has been called *)
NoCallYet == [fn |-> "none"]

----------------------------------------------------------------------------
(* State machine *)

TTLs == {NoTTL} \cup (0..MaxTTL)

(* payloads the loaders of Spec produce *)
PkgA == FormulaPackage(RawFormula("a", TRUE))
PkgB == FormulaPackage(RawFormula("B", TRUE))
LoaderValues == {JNull, JList(<<ToSerializableDict(PkgA)>>),
                 JList(<<ToSerializableDict(PkgB)>>)}
Loaders == [does : {"value"}, value : LoaderValues]
           \cup [does : {"transient", "error"}, value : {JNull}]

NoLoader == [does |-> "", value |-> JNull]

(* Observation of a Cache call: its arguments (loader: what the loader     *)
(* would do if invoked; w: what a write would meet), the entry file and    *)
(* int(time.time()) when it was made, and its result.                      *)
NoCall == [op |-> "none", key |-> "", ttl |-> NoTTL, allow_stale |-> FALSE,
           loader |-> NoLoader, w |-> "", before |-> Absent, now |-> 0,
           token |-> NoToken, outcome |-> "", value |-> JNull, exc |-> "none",
           ctx |-> NoContext, loads |-> 0]

NoRepoCall == [op |-> "none", flt |-> "", name |-> "", kind |-> "",
               outcome |-> "", exc |-> "none", ctx |-> NoCtx, pkgs |-> <<>>,
               calls |-> 0, layer |-> "", listFailed |-> FALSE, tok |-> NoToken]

(* what is remembered of the call before the observed one: set when both   *)
(* are get_all_installed calls with the same filter                        *)
NoPrev == [op |-> "none", layer |-> ""]

(* sequences without repetition over a set *)
RECURSIVE Arrangements(_)
Arrangements(S) ==
    {<<>>} \cup UNION {{<<x>> \o t : t \in Arrangements(S \ {x})} : x \in S}

BrewFormulae == {<<>>, <<"B", "a">>}
BrewCasks == Arrangements(CaskNames)
(* while the tool does not answer, what is installed cannot be observed *)
BrewStates ==
    [mode : {"up"}, formulae : BrewFormulae, casks : BrewCasks]
    \cup [mode : BrewModes \ {"up"}, formulae : {<<>>}, casks : {<<>>}]

(* The bytes of an entry file, for processes that write it at the same    *)
(* time.  A text is the sequence of its lexical tokens.                    *)

(* json.dumps({"_ts": now, "_token": token, "value": value}) *)
Dumps(entry) ==
    <<"{", "_ts", entry.ts, "_token", entry.token, "value">>
    \o (IF entry.value.t = "null" THEN <<"null">>
        ELSE <<"[">> \o entry.value.items \o <<"]">>)
    \o <<"}">>

Brackets == {"[", "]", "{", "}"}

(* the text of a value: null, or a bracketed list of items *)
ValueText(s) ==
    \/ s = <<"null">>
    \/ /\ Len(s) >= 2 /\ s[1] = "[" /\ s[Len(s)] = "]"
       /\ \A k \in 2..(Len(s) - 1) : s[k] \notin Brackets

(* json.loads(f.read_text()) of a file that exists: the entry written, or  *)
(* JSONDecodeError (empty text, text cut short, text after the document)   *)
Loads(text) ==
    LET n == Len(text) IN
    IF /\ n >= 8
       /\ text[1] = "{" /\ text[2] = "_ts" /\ text[4] = "_token"
       /\ text[6] = "value" /\ text[n] = "}"
       /\ ValueText(SubSeq(text, 7, n - 1))
    THEN Entry(text[3], text[5],
               IF text[7] = "null" THEN JNull
               ELSE JList(SubSeq(text, 8, n - 2)))
    ELSE Corrupt

(* open(path, "w"): the file is created or cut to length 0 *)
Truncate(text) == <<>>

(* write(fd, data) at offset 0 of a file another process may have written  *)
(* since this one opened it: bytes past the end of data stay                *)
WriteAtStart(text, data) == data \o SubSeq(text, Len(data) + 1, Len(text))

(* the two processes, e.g. two runs of the command at the same time *)
RaceProcs == {1, 2}
RaceKey == ListKey("all")

IdleProc == [pc |-> "idle", op |-> "", ttl |-> 0, now |-> 0, token |-> NoToken,
             value |-> JNull, loads |-> 0, wrote |-> FALSE]

(* no file yet, no call in progress; last is the process of the last write *)
NoWriters == [exists |-> FALSE, text |-> <<>>, last |-> 0,
              proc |-> [i \in RaceProcs |-> IdleProc]]

(* a fresh process on an empty cache directory *)
Fresh ==
    /\ files = [k \in Keys |-> Absent]
    /\ clock = 0
    /\ cellar_mtime = 0
    /\ caskroom_mtime = 0
    /\ cached_token = NoToken
    /\ token_timestamp = 0

Init ==
    /\ Fresh
    /\ brew = [mode |-> "up", formulae |-> <<>>, casks |-> <<>>]
    /\ cres = NoCall
    /\ rres = NoRepoCall
    /\ rprev = NoPrev
    /\ rt = RetryIdle
    /\ fcall = NoCallYet
    /\ fetch = FetchIdle
    /\ writers = NoWriters

Observe(op, key, ttl, allow_stale, loader, w, res) ==
    [op |-> op, key |-> key, ttl |-> ttl, allow_stale |-> allow_stale,
     loader |-> loader, w |-> w, before |-> files[key], now |-> Now,
     token |-> res.token,
     outcome |-> res.outcome, value |-> res.value, exc |-> res.exc,
     ctx |-> res.ctx, loads |-> res.loads]

Commit(res) ==
    /\ files' = res.files
    /\ cached_token' = res.memo.cached
    /\ token_timestamp' = res.memo.stamp

(* a change outside the program ends the observed run of calls *)
Forget ==
    /\ cres' = NoCall
    /\ rres' = NoRepoCall
    /\ rprev' = NoPrev

DoGetOrSet ==
    \E key \in CacheKeys, ttl \in TTLs, loader \in Loaders,
       allow_stale \in BOOLEAN, w \in WriteOutcomes :
        \E res \in {GetOrSet(files, Memo, key, ttl, loader, allow_stale, w)} :
        \* no write is attempted unless the loader returns
        /\ loader.does # "value" => w = "ok"
        /\ Commit(res)
        /\ cres' = Observe("get_or_set", key, ttl, allow_stale, loader, w, res)
        /\ UNCHANGED <<clock, cellar_mtime, caskroom_mtime, brew, rres, rprev, rt, fcall, fetch, writers>>

DoGet ==
    \E key \in CacheKeys :
        \E res \in {CacheGet(files, Memo, key)} :
        /\ Commit(res)
        /\ cres' = Observe("get", key, NoTTL, FALSE, NoLoader, "", res)
        /\ UNCHANGED <<clock, cellar_mtime, caskroom_mtime, brew, rres, rprev, rt, fcall, fetch, writers>>

DoSet ==
    \E key \in CacheKeys, value \in LoaderValues, w \in WriteOutcomes :
        \E res \in {CacheSet(files, Memo, key, value, w)} :
        /\ Commit(res)
        /\ cres' = Observe("set", key, NoTTL, FALSE, [does |-> "", value |-> value], w, res)
        /\ UNCHANGED <<clock, cellar_mtime, caskroom_mtime, brew, rres, rprev, rt, fcall, fetch, writers>>

(* time passes *)
Tick ==
    /\ clock < MaxClock
    /\ clock' = clock + 1
    /\ UNCHANGED <<files, cellar_mtime, caskroom_mtime, cached_token,
                   token_timestamp, brew, cres, rres, rprev, rt, fcall, fetch, writers>>

(* a package is installed or removed: the directory of its kind is        *)
(* modified, and its int(st_mtime) becomes the current second             *)
TouchDirs ==
    /\ \/ cellar_mtime # Now /\ cellar_mtime' = Now /\ UNCHANGED caskroom_mtime
       \/ caskroom_mtime # Now /\ caskroom_mtime' = Now /\ UNCHANGED cellar_mtime
    /\ Forget
    /\ UNCHANGED <<files, clock, cached_token, token_timestamp, brew, rt, fcall, fetch, writers>>

(* an entry file is damaged or removed behind the cache's back *)
Damage(keys, contents) ==
    \E key \in keys, c \in contents :
        /\ files[key] # c
        /\ files' = [files EXCEPT ![key] = c]
        /\ Forget
        /\ UNCHANGED <<clock, cellar_mtime, caskroom_mtime, cached_token,
                       token_timestamp, brew, rt, fcall, fetch, writers>>

DamageEntry == Damage(CacheKeys, {Absent, Corrupt, NonDict, Unreadable})

Next == DoGetOrSet \/ DoGet \/ DoSet \/ Tick \/ TouchDirs \/ DamageEntry

Spec == Init /\ [][Next]_vars

----------------------------------------------------------------------------
(* The Repository driven over a changing backend *)

InitRepo ==
    /\ Fresh
    /\ brew = [mode |-> "up", formulae |-> <<>>, casks |-> <<>>]
    /\ cres = NoCall
    /\ rres = NoRepoCall
    /\ rprev = NoPrev
    /\ rt = RetryIdle
    /\ fcall = NoCallYet
    /\ fetch = FetchIdle
    /\ writers = NoWriters

(* Observation of a Repository call: its arguments, its result, and the    *)
(* update token the cache holds when it ends (the token of every cache     *)
(* access the call made).                                                  *)
ObserveRepo(op, flt, name, kind, res) ==
    [op |-> op, flt |-> flt, name |-> name, kind |-> kind,
     outcome |-> res.outcome, exc |-> res.exc, ctx |-> res.ctx,
     pkgs |-> res.pkgs, calls |-> res.calls, layer |-> res.layer,
     listFailed |-> res.listFailed, tok |-> res.memo.cached]

(* Entries of different kind filters are separate files, and a call reads  *)
(* and writes only those of its own filter: the runs explored keep the     *)
(* entries of one filter at a time.                                        *)
OthersAbsent(flt) ==
    \A f \in Filters \ {flt} :
        files[ListKey(f)] = Absent /\ files[MapKey(f)] = Absent

DoGetAllInstalled ==
    \E flt \in {f \in RepoFilters : OthersAbsent(f)}, w1, w2 \in WriteOutcomes :
        \E res \in {GetAllInstalled(files, Memo, flt, w1, w2)} :
        \* the writes are met only by a refresh that fetched
        /\ (res.layer # "refresh" \/ res.outcome = "raise") => w1 = "ok"
        /\ (res.layer # "refresh" \/ res.outcome = "raise" \/ w1 # "ok") => w2 = "ok"
        /\ Commit(res)
        /\ rres' = ObserveRepo("get_all_installed", flt, "", "", res)
        /\ rprev' = IF rres.op = "get_all_installed" /\ rres.flt = flt
                     THEN [op |-> rres.op, layer |-> rres.layer]
                     ELSE NoPrev
        /\ UNCHANGED <<clock, cellar_mtime, caskroom_mtime, brew, cres, rt, fcall, fetch, writers>>

DoGetDetails ==
    \E name \in Names, kind \in {k \in RepoKinds : OthersAbsent(KindValue(k))},
       w1, w2 \in WriteOutcomes :
        \E res \in {GetDetails(files, Memo, name, kind, w1, w2)} :
        /\ res.layer \in {"map", "list"} => w1 = "ok"
        /\ (res.layer \in {"map", "list"} \/ w1 # "ok") => w2 = "ok"
        /\ Commit(res)
        /\ rres' = ObserveRepo("get_details", KindValue(kind), name, kind, res)
        /\ rprev' = NoPrev
        /\ UNCHANGED <<clock, cellar_mtime, caskroom_mtime, brew, cres, rt, fcall, fetch, writers>>

(* packages are installed or removed, or the tool stops answering *)
BrewChange ==
    \E b \in BrewStates :
        /\ b # brew
        /\ brew' = b
        /\ Forget
        /\ UNCHANGED <<files, clock, cellar_mtime, caskroom_mtime, cached_token,
                       token_timestamp, rt, fcall, fetch, writers>>

DamageRepoEntry == Damage({k \in RepoKeys : files[k] # Absent}, RepoDamage)

NextRepo ==
    \/ DoGetAllInstalled
    \/ DoGetDetails
    \/ BrewChange
    \/ Tick
    \/ TouchDirs
    \/ DamageRepoEntry

SpecRepo == InitRepo /\ [][NextRepo]_vars

----------------------------------------------------------------------------
(* The shell executor under the retry wrapper *)

cacheVars == <<files, clock, cellar_mtime, caskroom_mtime, cached_token,
               token_timestamp, brew, cres, rres, rprev>>

(* a wrapped function is called: an arbitrary one under any decorator      *)
(* arguments, or run_json under those of shell.py                          *)
RetryCall ==
    /\ rt.pc \in {"idle", "done"}
    /\ \/ \E n \in 0..MaxRetries, base \in 1..MaxBaseDelay, backoff \in 1..MaxBackoff :
            rt' = RetryEnter("func", <<>>, 0, n, base, backoff)
       \/ \E cmd \in Commands, timeout \in ShellTimeouts :
            rt' = RetryEnter("run_json", cmd, timeout, DefaultMaxRetries,
                             DefaultBaseDelay, DefaultBackoff)
    /\ UNCHANGED <<cacheVars, fcall, fetch, writers>>

(* the wrapped function is invoked once *)
RetryAttempt ==
    /\ rt.pc = "attempt"
    /\ \/ /\ rt.op = "func"
          /\ \E o \in FuncOutcomes(rt.attempt) : rt' = RetryStep(rt, o, NoProc)
       \/ /\ rt.op = "run_json"
          /\ \E proc \in Procs :
                rt' = RetryStep(rt, RunJsonOnce(proc, rt.cmd, rt.timeout), proc)
    /\ UNCHANGED <<cacheVars, fcall, fetch, writers>>

(* "await asyncio.sleep(delay)" returns and the loop goes on *)
RetrySleep ==
    /\ rt.pc = "sleep"
    /\ rt' = [rt EXCEPT !.slept = Append(@, Delay(rt.base, rt.backoff, rt.attempt)),
                        !.attempt = @ + 1,
                        !.pc = "attempt"]
    /\ UNCHANGED <<cacheVars, fcall, fetch, writers>>

(* run_capture called directly, as brew_cask.list_installed does *)
DoRunCapture ==
    /\ rt.pc \in {"idle", "done"}
    /\ \E cmd \in Commands, timeout \in ShellTimeouts, proc \in Procs :
            rt' = [RetryIdle EXCEPT !.pc = "done", !.op = "run_capture",
                                    !.cmd = cmd, !.timeout = timeout,
                                    !.calls = 1, !.proc = proc,
                                    !.last = RunCapture(proc, cmd, timeout),
                                    !.res = RunCapture(proc, cmd, timeout)]
    /\ UNCHANGED <<cacheVars, fcall, fetch, writers>>

NextRetry == RetryCall \/ RetryAttempt \/ RetrySleep \/ DoRunCapture

SpecRetry == Init /\ [][NextRetry]_vars

(* an invocation of the wrapped function and a sleep both come to an end *)
SpecRetryFair == SpecRetry /\ WF_vars(RetryAttempt) /\ WF_vars(RetrySleep)

----------------------------------------------------------------------------
(* _fetch_pkgs, await by await, over a backend that may change meanwhile *)

otherVars == <<files, clock, cellar_mtime, caskroom_mtime, cached_token,
               token_timestamp, cres, rres, rprev, rt, fcall, writers>>

FetchCall ==
    /\ fetch.pc \in {"idle", "done"}
    /\ \E flt \in Filters : fetch' = FetchEnter(flt)
    /\ UNCHANGED <<otherVars, brew>>

FormulaQueryEnds ==
    /\ fetch.pc = "await_formula"
    /\ fetch' = FetchAfterFormula(fetch, FormulaListInstalled)
    /\ UNCHANGED <<otherVars, brew>>

CaskQueryEnds ==
    /\ fetch.pc = "await_cask"
    /\ fetch' = FetchAfterCask(fetch, CaskListInstalled)
    /\ UNCHANGED <<otherVars, brew>>

BrewChangeFetch ==
    /\ \E b \in BrewStates : b # brew /\ brew' = b
    /\ UNCHANGED <<otherVars, fetch>>

NextFetch == FetchCall \/ FormulaQueryEnds \/ CaskQueryEnds \/ BrewChangeFetch

SpecFetch == InitRepo /\ [][NextFetch]_vars

----------------------------------------------------------------------------
(* _refresh_cache, await by await: the fetch, then the two writes.  The    *)
(* entries of all three filters are kept.                                  *)

(* mutant: every filter's list is written under the key of "all" *)
StorePkgsSharedKey(fs, memo, flt, pkgs, w1, w2) ==
    LET dicts == ToDicts(pkgs)
        s1 == CacheSet(fs, memo, ListKey("all"), JList(dicts), w1)
    IN  IF s1.outcome = "return"
        THEN CacheSet(s1.files, s1.memo, MapKey(flt), JDict(BuildMapping(dicts)), w2)
        ELSE s1

(* _refresh_cache after "pkgs = await self._fetch_pkgs(kind_filter)": the  *)
(* two cache.set calls in one try block; a CacheError is logged            *)
StorePkgs(fs, memo, flt, pkgs, w1, w2) ==
    LET dicts == ToDicts(pkgs)
        s1 == CacheSet(fs, memo, ListKey(flt), JList(dicts), w1)
    IN  IF s1.outcome = "return"
        THEN CacheSet(s1.files, s1.memo, MapKey(flt), JDict(BuildMapping(dicts)), w2)
        ELSE s1

(* _refresh_cache(kind_filter) is called and runs up to the first await of *)
(* _fetch_pkgs                                                             *)
RefreshCall ==
    /\ \/ fetch.pc \in {"idle", "stored"}
       \/ fetch.pc = "done" /\ fetch.res = "raise"
    /\ \E flt \in Filters : fetch' = FetchEnter(flt)
    /\ UNCHANGED <<otherVars, brew>>

(* _fetch_pkgs has returned: the list entry and the map entry are written *)
RefreshStore ==
    /\ fetch.pc = "done" /\ fetch.res = "return"
    \* a write succeeds or is refused; what a write cut short leaves behind
    \* is followed under Spec and SpecRepo
    /\ \E w1, w2 \in {"ok", "denied"} :
        \E res \in {StorePkgs(files, Memo, fetch.flt, fetch.pkgs, w1, w2)} :
        \* the second write is met only after the first
        /\ w1 # "ok" => w2 = "ok"
        /\ Commit(res)
    /\ fetch' = [fetch EXCEPT !.pc = "stored"]
    /\ UNCHANGED <<clock, cellar_mtime, caskroom_mtime, brew, cres, rres, rprev,
                   rt, fcall, writers>>

(* the tool with nothing or with everything installed, or not answering *)
RefreshBrewStates ==
    {b \in BrewStates : b.mode = "up" => (b.formulae = <<>> <=> b.casks = <<>>)}

BrewChangeRefresh ==
    /\ \E b \in RefreshBrewStates : b # brew /\ brew' = b
    /\ UNCHANGED <<otherVars, fetch>>

NextRefresh ==
    \/ RefreshCall
    \/ FormulaQueryEnds
    \/ CaskQueryEnds
    \/ RefreshStore
    \/ BrewChangeRefresh

SpecRefresh == InitRepo /\ [][NextRefresh]_vars

----------------------------------------------------------------------------
(* The list of installed packages when one formula at most is installed *)

ScenarioBrewStates ==
    [mode : {"up"}, formulae : {<<>>, <<"a">>, <<"u">>, <<"B">>},
     casks : BrewCasks]

BrewChangeScenario ==
    \E b \in ScenarioBrewStates :
        /\ b # brew
        /\ brew' = b
        /\ Forget
        /\ UNCHANGED <<files, clock, cellar_mtime, caskroom_mtime, cached_token,
                       token_timestamp, rt, fcall, fetch, writers>>

NextScenario == DoGetAllInstalled \/ BrewChangeScenario

SpecScenario == InitRepo /\ [][NextScenario]_vars

----------------------------------------------------------------------------
(* The update token computed by several Cache instances of one process *)

(* Cache("repository") and another instance: _cached_token and             *)
(* _token_timestamp are globals of the module, shared by all               *)
Instances == {"repository", "other"}

NoPrevToken == [inst |-> "", at |-> -1, token |-> NoToken, fs |-> NoToken,
                stamp |-> -1]

(* an instance computes the update token.  Observed: the time of the call  *)
(* (at), the token returned, the token the directories have at that time   *)
(* (fs), the time of the stat behind the token returned (stamp), and the   *)
(* same of the computation before (prev)                                   *)
DoUpdateToken ==
    \E inst \in Instances :
        \E u \in {UpdateToken(Memo)} :
        /\ cached_token' = u.memo.cached
        /\ token_timestamp' = u.memo.stamp
        /\ fcall' = [fn |-> "_update_token", inst |-> inst, at |-> clock,
                     token |-> u.token, fs |-> FsToken, stamp |-> u.memo.stamp,
                     prev |-> IF fcall.fn = "_update_token"
                              THEN [inst |-> fcall.inst, at |-> fcall.at,
                                    token |-> fcall.token, fs |-> fcall.fs,
                                    stamp |-> fcall.stamp]
                              ELSE NoPrevToken]
        /\ UNCHANGED <<files, clock, cellar_mtime, caskroom_mtime, brew, cres,
                       rres, rprev, rt, fetch, writers>>

TokenTick ==
    /\ clock < MaxTokenClock
    /\ clock' = clock + 1
    /\ UNCHANGED <<files, cellar_mtime, caskroom_mtime, cached_token,
                   token_timestamp, brew, cres, rres, rprev, rt, fcall, fetch, writers>>

NextToken == DoUpdateToken \/ TokenTick \/ TouchDirs

SpecToken == Init /\ [][NextToken]_vars

----------------------------------------------------------------------------
(* The functions without state, each applied to the inputs it may be given *)

(* a command fails with e: sys.exit(handle_error(e)) *)
DoHandleError ==
    \E e \in Errors :
        /\ fcall = NoCallYet
        /\ fcall' = [fn |-> "handle_error", arg |-> e, out |-> HandleError(e)]
        /\ UNCHANGED <<cacheVars, rt, fetch, writers>>

(* the raw records derive_status may be given: every combination of the    *)
(* fields it reads                                                         *)
StatusInfos ==
    [outdated : BOOLEAN,
     version : {[k \in {} |-> FALSE], [outdated |-> FALSE], [outdated |-> TRUE]},
     pinned : BOOLEAN, keg_only : BOOLEAN, linked_keg : BOOLEAN,
     installed : {<<>>, <<"1.0">>},
     service : {<<>>, <<[service |-> FALSE]>>, <<[service |-> TRUE]>>}]

DoDeriveStatus ==
    \E info \in StatusInfos :
        /\ fcall = NoCallYet
        /\ fcall' = [fn |-> "derive_status", arg |-> info,
                     out |-> DeriveStatus(info)]
        /\ UNCHANGED <<cacheVars, rt, fetch, writers>>

Dep(name) == [name |-> name, optional |-> FALSE, build |-> FALSE, test |-> FALSE]

(* the packages that are serialised: every combination of status flags,    *)
(* with and without installed_on, with and without dependencies            *)
Packages ==
    [name : {"a"}, kind : Kinds, versions : {<<"1.0">>}, status : SUBSET Flags,
     installed_on : {<<>>, <<5, 0>>, <<5, 7>>},
     deps : {<<>>, <<Dep("x")>>,
             <<[Dep("x") EXCEPT !.build = TRUE],
               [Dep("y") EXCEPT !.optional = TRUE, !.test = TRUE]>>}]

(* a package is written to the cache and read back *)
DoRoundTrip ==
    \E p \in Packages :
        /\ fcall = NoCallYet
        /\ fcall' = [fn |-> "package_from_dict", arg |-> p,
                     dict |-> ToSerializableDict(p),
                     out |-> PackageFromDict(ToSerializableDict(p)),
                     list |-> FromDicts(ToDicts(<<p, PkgB>>))]
        /\ UNCHANGED <<cacheVars, rt, fetch, writers>>

(* the caller is done with what the function returned *)
FnReturn ==
    /\ fcall # NoCallYet
    /\ fcall' = NoCallYet
    /\ UNCHANGED <<cacheVars, rt, fetch, writers>>

NextFn == DoHandleError \/ DoDeriveStatus \/ DoRoundTrip \/ FnReturn

SpecFn == Init /\ [][NextFn]_vars

----------------------------------------------------------------------------
(* Two processes refreshing one entry file at the same time.  Each is a    *)
(* fresh process, so its first _update_token stats the directories.  A     *)
(* call is taken apart at its system calls: the read, the loader, the open *)
(* of write_text and its write.                                            *)

RaceValues == {JList(<<"a">>), JList(<<"B">>), JList(<<"B", "a">>)}

(* what a process finds at the path *)
FileOf(w) == IF w.exists THEN Loads(w.text) ELSE Absent

RaceFrame ==
    /\ files' = [files EXCEPT ![RaceKey] = FileOf(writers')]
    /\ UNCHANGED <<clock, cellar_mtime, caskroom_mtime, cached_token,
                   token_timestamp, brew, cres, rres, rprev, rt, fcall, fetch>>

(* get_or_set(key, ttl, loader) up to "cache_miss", or set(key, value) up  *)
(* to its try block                                                        *)
RaceCall ==
    \E i \in RaceProcs, op \in {"get_or_set", "set"}, ttl \in 0..MaxTTL,
       value \in RaceValues :
        \E rd \in {ReadEntry(FileOf(writers), FsToken, ttl, FALSE)} :
        /\ writers.proc[i].pc = "idle"
        \* value is the argument of set; get_or_set has none
        /\ op = "get_or_set" => value = JList(<<"a">>)
        /\ writers' = [writers EXCEPT !.proc[i] =
               [pc |-> IF op = "set" THEN "open"
                       ELSE IF rd.r = "miss" THEN "load" ELSE "done",
                op |-> op, ttl |-> ttl, now |-> Now, token |-> FsToken,
                value |-> IF op = "set" THEN value
                          ELSE IF rd.r = "hit" THEN FileOf(writers).value
                          ELSE JNull,
                loads |-> 0, wrote |-> FALSE]]
        /\ RaceFrame

(* value = loader() *)
RaceLoad ==
    \E i \in RaceProcs, value \in RaceValues :
        /\ writers.proc[i].pc = "load"
        /\ writers' = [writers EXCEPT !.proc[i].pc = "open",
                                      !.proc[i].value = value,
                                      !.proc[i].loads = 1]
        /\ RaceFrame

(* f.write_text(...): the open *)
RaceOpen ==
    \E i \in RaceProcs :
        /\ writers.proc[i].pc = "open"
        /\ writers' = [writers EXCEPT !.exists = TRUE,
                                      !.text = Truncate(writers.text),
                                      !.proc[i].pc = "write"]
        /\ RaceFrame

(* f.write_text(...): the write and the close *)
RaceWrite ==
    \E i \in RaceProcs :
        \E p \in {writers.proc[i]} :
        /\ p.pc = "write"
        /\ writers' = [writers EXCEPT
               !.text = WriteAtStart(writers.text,
                                     Dumps(Entry(p.now, p.token, p.value))),
               !.last = i,
               !.proc[i].pc = "done",
               !.proc[i].wrote = TRUE]
        /\ RaceFrame

(* both processes have ended; two more are started later *)
RaceExit ==
    /\ \A i \in RaceProcs : writers.proc[i].pc = "done"
    /\ writers' = [writers EXCEPT !.last = 0,
                                  !.proc = [i \in RaceProcs |-> IdleProc]]
    /\ RaceFrame

NextRace == RaceCall \/ RaceLoad \/ RaceOpen \/ RaceWrite \/ RaceExit

SpecRace == Init /\ [][NextRace]_vars

----------------------------------------------------------------------------
(* Claims about the Cache, checked under Spec.  cres describes the call    *)
(* just made: cres.before is the entry file it found, files[cres.key] the  *)
(* file it left, cres.token the update token it computed.                  *)

Stored == files[cres.key]
Age == cres.now - cres.before.ts
TokenMatches == cres.before.token = cres.token
TtlNotElapsed == cres.ttl = NoTTL \/ Age < cres.ttl
LoadedAndStored ==
    /\ cres.outcome = "return"
    /\ cres.value = cres.loader.value
    /\ cres.loads = 1
    /\ Stored = Entry(cres.now, cres.token, cres.loader.value)

(* C1: get_or_set on an entry whose _token is the current token and whose  *)
(* TTL has not elapsed (or ttl is None) returns the stored value, does not *)
(* invoke the loader and leaves the entry file as it was, _ts included.    *)
C1_HitReturnsStored ==
    (cres.op = "get_or_set" /\ cres.before.kind = "entry" /\ TokenMatches
        /\ TtlNotElapsed)
    => /\ cres.outcome = "return"
       /\ cres.value = cres.before.value
       /\ cres.loads = 0
       /\ Stored = cres.before

(* a hit on an entry written in an earlier second, with a loader at hand   *)
(* that would have produced another value                                  *)
C1_Witness ==
    /\ cres.op = "get_or_set" /\ cres.before.kind = "entry" /\ TokenMatches
    /\ TtlNotElapsed /\ Age > 0
    /\ cres.loader.does = "value" /\ cres.loader.value # cres.before.value
    /\ cres.outcome = "return"

(* C2: an entry written under a token other than the current one is        *)
(* invalid for get_or_set whatever ttl is (an integer TTL that has not     *)
(* elapsed, or None): the loader is invoked and its value returned.        *)
C2_TokenChangeInvalidates ==
    (cres.op = "get_or_set" /\ cres.before.kind = "entry" /\ ~TokenMatches
        /\ TtlNotElapsed /\ cres.loader.does = "value" /\ cres.w = "ok")
    => LoadedAndStored

(* C3: with the token unchanged, an entry written at _ts = t0 is a hit for *)
(* get_or_set(ttl = T) at every now with now - t0 < T, and invalid (the    *)
(* loader is invoked) at every now with now - t0 >= T.                     *)
C3_TtlExpiration ==
    (cres.op = "get_or_set" /\ cres.before.kind = "entry" /\ TokenMatches
        /\ cres.ttl # NoTTL)
    => /\ Age < cres.ttl =>
            cres.outcome = "return" /\ cres.value = cres.before.value /\ cres.loads = 0
       /\ Age >= cres.ttl => cres.loads = 1

(* the boundary: the entry is exactly T seconds old, T > 0 *)
C3_Witness ==
    /\ cres.op = "get_or_set" /\ cres.before.kind = "entry" /\ TokenMatches
    /\ cres.ttl # NoTTL /\ cres.ttl > 0 /\ Age = cres.ttl
    /\ cres.loads = 1

(* C4: when the entry exists but is invalid (TTL expired or token          *)
(* mismatch) and the loader raises a Transient failure, allow_stale=true   *)
(* returns the previously stored value, whatever it is, and                *)
(* allow_stale=false propagates the Transient failure.                     *)
C4_StaleFallback ==
    (cres.op = "get_or_set" /\ cres.before.kind = "entry"
        /\ (~TokenMatches \/ ~TtlNotElapsed) /\ cres.loader.does = "transient")
    => /\ cres.allow_stale =>
            cres.outcome = "return" /\ cres.value = cres.before.value
       /\ ~cres.allow_stale =>
            cres.outcome = "raise" /\ cres.exc = "TransientError"

(* a Cache call is being made in this step (time does not pass within it,  *)
(* and every other step clears cres)                                       *)
CallStep == clock' = clock /\ cres'.op # "none"

(* C5: on loader success get_or_set overwrites the entry file with         *)
(* {_ts: now, _token: current token, value: loader result} and returns     *)
(* that value; the next get_or_set (same token, ttl not elapsed) or get    *)
(* (same token) returns the same value without invoking a loader.          *)
C5_Stored ==
    (cres.op = "get_or_set" /\ cres.loads = 1 /\ cres.loader.does = "value"
        /\ cres.w = "ok")
    => LoadedAndStored

C5_NextCallHits ==
    (/\ cres.op = "get_or_set" /\ cres.loads = 1 /\ cres.loader.does = "value"
     /\ cres.outcome = "return"
     /\ CallStep
     /\ cres'.op \in {"get_or_set", "get"}
     /\ cres'.token = cres.token
     /\ cres'.op = "get_or_set" =>
            (cres'.ttl = NoTTL \/ cres'.now - cres.now < cres'.ttl))
    => /\ cres'.outcome = "return"
       /\ cres'.value = cres.value
       /\ cres'.loads = 0

C5_LoadThenHit == [](C5_Stored) /\ [][C5_NextCallHits]_vars

(* a load replaced an entry that held another value *)
C5_Witness ==
    /\ cres.op = "get_or_set" /\ cres.loads = 1 /\ cres.loader.does = "value"
    /\ cres.outcome = "return"
    /\ cres.before.kind = "entry" /\ cres.before.value # cres.value
    /\ Stored.value = cres.value

(* C6: get returns the stored value when an entry exists and its _token is *)
(* the current token, however old the entry is; otherwise (no entry, or    *)
(* another token) it returns None; it never invokes a loader or writes.    *)
C6_GetTokenOnly ==
    cres.op = "get" =>
        /\ cres.loads = 0
        /\ Stored = cres.before
        /\ (cres.before.kind = "entry" /\ TokenMatches) =>
                cres.outcome = "return" /\ cres.value = cres.before.value
        /\ (cres.before.kind \in {"absent", "corrupt"}
            \/ (cres.before.kind = "entry" /\ ~TokenMatches)) =>
                cres.outcome = "return" /\ cres.value = JNull

(* get served an entry older than every TTL of the model *)
C6_Witness ==
    /\ cres.op = "get" /\ cres.before.kind = "entry" /\ TokenMatches
    /\ Age >= MaxTTL
    /\ cres.value # JNull

(* C7: an entry file with non-parseable content is a miss: get returns     *)
(* None; get_or_set invokes the loader, stores and returns its value; no   *)
(* error is raised because of the corruption.                              *)
C7_CorruptIsMiss ==
    cres.before.kind = "corrupt" =>
        /\ cres.op = "get" => cres.outcome = "return" /\ cres.value = JNull
        /\ cres.op = "get_or_set" =>
            /\ cres.loads = 1
            /\ (cres.loader.does = "value" /\ cres.w = "ok") => LoadedAndStored
            /\ cres.exc = "CacheError" => cres.w # "ok"

C7_Witness ==
    /\ cres.op = "get_or_set" /\ cres.before.kind = "corrupt"
    /\ cres.outcome = "return" /\ cres.value # JNull /\ Stored.kind = "entry"

----------------------------------------------------------------------------
(* Claims about the Repository, checked under SpecRepo.  A step that makes *)
(* a Repository call leaves the clock alone and sets rres to the call's    *)
(* observation; unprimed variables are the state the call found.  Every    *)
(* change of the backend, of the watched directories or of an entry file   *)
(* from outside clears rres, so an unprimed rres.op other than "none" is   *)
(* the call made before this one with no such change in between.           *)

RepoCall(op) == clock' = clock /\ rres'.op = op

(* the update token a cache access made in this state uses *)
CurrentToken == UpdateToken(Memo).token

ValidNonEmptyList(f) ==
    /\ f.kind = "entry"
    /\ f.token = CurrentToken
    /\ f.value.t = "list"
    /\ f.value.items # <<>>

(* C8: when the list entry of the requested kind filter is present, holds  *)
(* the current token and a non-empty list, get_all_installed returns the   *)
(* deserialized cached list and makes no backend query, whatever state the *)
(* backend is in.                                                          *)
C8_FastPath ==
    [][\A flt \in Filters :
        (RepoCall("get_all_installed") /\ rres'.flt = flt
            /\ ValidNonEmptyList(files[ListKey(flt)]))
        => /\ rres'.outcome = "return"
           /\ rres'.calls = 0
           /\ Len(rres'.pkgs) = Len(files[ListKey(flt)].value.items)
           /\ \A i \in 1..Len(rres'.pkgs) :
                 rres'.pkgs[i] = PackageFromDict(files[ListKey(flt)].value.items[i])
           /\ files' = files]_vars

(* the cached list was served while the backend could not answer *)
C8_Witness ==
    /\ rres.op = "get_all_installed"
    /\ rres.layer = "cache"
    /\ rres.calls = 0
    /\ rres.pkgs # <<>>
    /\ brew.mode # "up"

SecondGetAllInstalled ==
    /\ RepoCall("get_all_installed")
    /\ rres.op = "get_all_installed"
    /\ rres'.flt = rres.flt
    /\ rres.outcome = "return"

SameListFromCache ==
    /\ rres'.outcome = "return"
    /\ rres'.pkgs = rres.pkgs
    /\ rres'.calls = 0

LacksName(f, name) ==
    \/ f.kind = "absent"
    \/ f.kind = "entry" /\ f.token # CurrentToken
    \/ /\ f.kind = "entry"
       /\ f.token = CurrentToken
       /\ f.value.items # <<>>
       /\ ~HasName(f.value.items, name)

(* C10: whatever the cache holds (map entry absent, written under another  *)
(* token, or valid and non-empty without the name; likewise the list       *)
(* entry), get_details for a name the answering backend does not know      *)
(* raises PackageNotFoundError with the package name and the kind in its   *)
(* context.                                                                *)
C10_UnknownPackageNotFound ==
    [][(/\ RepoCall("get_details")
        /\ rres'.name = UnknownName
        /\ brew.mode = "up"
        /\ LacksName(files[MapKey(rres'.flt)], UnknownName)
        /\ LacksName(files[ListKey(rres'.flt)], UnknownName))
        => /\ rres'.outcome = "raise"
           /\ rres'.exc = "PackageNotFoundError"
           /\ rres'.ctx = NotFoundCtx(UnknownName, rres'.kind)]_vars

(* C11: whenever get_details gets past the map cache and does not return a *)
(* package, what it raises is PackageNotFoundError carrying the package    *)
(* name and the kind, also when the backend query fails during the forced  *)
(* refresh or the direct query: no other exception escapes.                *)
C11_OnlyNotFoundEscapes ==
    [][(RepoCall("get_details") /\ rres'.outcome = "raise" /\ rres'.layer # "map")
        => /\ rres'.exc = "PackageNotFoundError"
           /\ rres'.ctx = NotFoundCtx(rres'.name, rres'.kind)]_vars

----------------------------------------------------------------------------
(* Claims about the retry wrapper and the shell executor, checked under    *)
(* SpecRetry / SpecRetryFair.  rt describes the call in progress or the    *)
(* one just ended.                                                         *)

Retried == rt.op \in {"func", "run_json"}
RetryDone == Retried /\ rt.pc = "done"
EndedTransient ==
    RetryDone /\ rt.res.outcome = "raise" /\ ErrorKind(rt.res.exc.type) = "Transient"

(* a call under max_retries >= 1 that ended with a Transient error was     *)
(* invoked max_retries times and raises the error of its last invocation   *)
C12_Exhausted ==
    (EndedTransient /\ rt.n >= 1) =>
        /\ rt.calls = rt.n
        /\ rt.res.exc = rt.last_error
        /\ rt.op = "func" => rt.res.exc.ctx.attempt = rt.n
        /\ rt.op = "run_json" =>
            /\ rt.calls = DefaultMaxRetries
            /\ rt.res = RunJsonOnce(rt.proc, rt.cmd, rt.timeout)

----------------------------------------------------------------------------
(* C13 *)

(* the last invocation of the wrapped function raised something that is    *)
(* not a TransientError                                                    *)
NonTransientRaised ==
    /\ Retried
    /\ rt.last.outcome = "raise"
    /\ ErrorKind(rt.last.exc.type) # "Transient"

(* the delays of the Transient failures of attempts 1 .. k *)
DelaysUpTo(k) == [i \in 1..k |-> Delay(rt.base, rt.backoff, i)]

(* C13: a failure that is not Transient (User, System or any other         *)
(* exception) ends the call at once, on whichever attempt it occurs: the   *)
(* call raises that very exception, the wrapped function has been invoked  *)
(* once per attempt and so once on this one, no further attempt follows    *)
(* and no delay is taken beyond those of the earlier Transient failures.   *)
C13_NonTransientPropagates ==
    NonTransientRaised =>
        /\ rt.pc = "done"
        /\ rt.res = rt.last
        /\ rt.calls = rt.attempt
        /\ rt.slept = DelaysUpTo(rt.attempt - 1)
        /\ rt.op = "func" => rt.last.exc.ctx.attempt = rt.attempt

C13_Witness ==
    /\ NonTransientRaised /\ rt.op = "func" /\ rt.n = 3 /\ rt.attempt = 2
    /\ rt.res.exc.type = "ValueError"
    /\ rt.slept = <<rt.base>>

----------------------------------------------------------------------------
(* C14 *)

(* run_json has invoked its body at least once; rt.proc is what the        *)
(* subprocess of the last invocation did, rt.last how that invocation      *)
(* ended                                                                   *)
RunJsonInvoked == rt.op = "run_json" /\ rt.calls >= 1

ExitedNonZero == rt.proc.how = "exit" /\ rt.proc.code # 0
ExitedZero == rt.proc.how = "exit" /\ rt.proc.code = 0
OutputParses == JsonLoads(Strip(rt.proc.out)).ok

IsPrefix(p, t) == Len(p) <= Len(t) /\ p = SubSeq(t, 1, Len(p))

RaisedCommandError ==
    /\ rt.last.outcome = "raise"
    /\ rt.last.exc.type = "BrewCommandError"
    /\ ErrorKind(rt.last.exc.type) = "Transient"
    /\ "command" \in DOMAIN rt.last.exc.ctx
    /\ rt.last.exc.ctx.command = JoinCmd(rt.cmd)

(* the retry policy treats the failure of this invocation as Transient:    *)
(* the delay and then a further attempt, or the error re-raised when this  *)
(* was the last attempt                                                    *)
RetriedByPolicy ==
    IF rt.calls < rt.n
    THEN \/ rt.pc = "sleep" /\ rt.attempt = rt.calls
         \/ rt.pc = "attempt" /\ rt.attempt = rt.calls + 1
    ELSE rt.pc = "done" /\ rt.res = rt.last

(* C14: in run_json a non-zero exit raises a Transient CommandError with   *)
(* the command, the exit code and stderr (stdout when stderr is empty) in  *)
(* its context; output that does not parse as JSON raises the same kind    *)
(* with a preview of the output of at most 200 characters; both are        *)
(* retried; a parsed value is returned only for exit code 0 and output     *)
(* that parses.                                                            *)
C14_RunJsonErrors ==
    RunJsonInvoked =>
        /\ ExitedNonZero =>
                /\ RaisedCommandError
                /\ {"returncode", "error"} \subseteq DOMAIN rt.last.exc.ctx
                /\ rt.last.exc.ctx.returncode = rt.proc.code
                /\ rt.last.exc.ctx.error =
                        IF Strip(rt.proc.err) # <<>> THEN Strip(rt.proc.err)
                        ELSE Strip(rt.proc.out)
                /\ RetriedByPolicy
        /\ (ExitedZero /\ ~OutputParses) =>
                /\ RaisedCommandError
                /\ "output_preview" \in DOMAIN rt.last.exc.ctx
                /\ Len(rt.last.exc.ctx.output_preview) <= 200
                /\ IsPrefix(rt.last.exc.ctx.output_preview, Strip(rt.proc.out))
                /\ Len(Strip(rt.proc.out)) <= 200 =>
                        rt.last.exc.ctx.output_preview = Strip(rt.proc.out)
                /\ RetriedByPolicy
        /\ rt.last.outcome = "return" =>
                /\ ExitedZero /\ OutputParses
                /\ rt.last.value = JsonLoads(Strip(rt.proc.out)).value
                /\ rt.pc = "done" /\ rt.res = rt.last

C14_Witness ==
    /\ RunJsonInvoked /\ ExitedZero /\ ~OutputParses
    /\ Len(rt.proc.out) > 200
    /\ Len(rt.last.exc.ctx.output_preview) = 200
    /\ rt.attempt = 2 /\ rt.pc = "sleep"

----------------------------------------------------------------------------
(* C15 *)

(* run_capture has run: called directly, or by the last invocation of      *)
(* run_json's body, through which its exception passes unchanged           *)
RunCaptureRan == rt.op \in {"run_capture", "run_json"} /\ rt.calls >= 1

TimedOut == rt.proc.how = "timeout"
Completed == rt.proc.how = "exit"

(* C15: when the subprocess has not completed within the timeout,          *)
(* run_capture calls kill() on it and raises a Transient TimeoutError with *)
(* the command string and the timeout value in its context, also when      *)
(* kill() itself raises; when the subprocess completes in time,            *)
(* run_capture returns (stdout, stderr, exit code) whatever the exit code  *)
(* and raises nothing.                                                     *)
C15_RunCapture ==
    RunCaptureRan =>
        /\ TimedOut =>
                /\ rt.last.outcome = "raise"
                /\ rt.last.exc.type = "BrewTimeoutError"
                /\ ErrorKind(rt.last.exc.type) = "Transient"
                /\ rt.last.exc.ctx = [command |-> JoinCmd(rt.cmd),
                                      timeout |-> rt.timeout]
                /\ rt.last.kill = IF rt.proc.kill_ok THEN "done" ELSE "failed"
        /\ (Completed /\ rt.op = "run_capture") =>
                /\ rt.pc = "done"
                /\ rt.res = ShellReturned([out |-> Strip(rt.proc.out),
                                           err |-> Strip(rt.proc.err),
                                           code |-> rt.proc.code])

C15_Witness ==
    /\ rt.op = "run_capture" /\ TimedOut /\ ~rt.proc.kill_ok
    /\ rt.res.outcome = "raise" /\ rt.res.exc.type = "BrewTimeoutError"
    /\ rt.res.kill = "failed"

----------------------------------------------------------------------------
(* C16 *)

(* get_all_installed has just returned the list of a full refresh *)
RefreshReturned ==
    /\ RepoCall("get_all_installed")
    /\ rres'.layer = "refresh"
    /\ rres'.outcome = "return"

(* the file holds an entry written by the call that has just ended *)
WrittenNow(f, value) ==
    /\ f.kind = "entry"
    /\ f.token = rres'.tok
    /\ f.value = value

(* one record per package of the list, each equal to the package's list    *)
(* record (a record of the map is keyed by its name)                       *)
OneRecordPerPackage(m, dicts) ==
    /\ Len(m) = Len(dicts)
    /\ \A i \in 1..Len(dicts) : \E j \in 1..Len(m) : m[j] = dicts[i]
    /\ \A i, j \in 1..Len(m) : m[i].name = m[j].name => i = j

(* C16: when a full refresh for kind filter K (formula, cask or all) has   *)
(* returned its list, the entries installed_K and installed_map_K have     *)
(* both been written from that same fetch: the list entry holds the        *)
(* records of the returned packages, and the map entry holds exactly one   *)
(* record per returned package, keyed by its name and equal to its list    *)
(* record.                                                                 *)
C16_ListAndMapWritten ==
    [][RefreshReturned =>
        /\ WrittenNow(files'[ListKey(rres'.flt)], JList(ToDicts(rres'.pkgs)))
        /\ files'[MapKey(rres'.flt)].kind = "entry"
        /\ files'[MapKey(rres'.flt)].token = rres'.tok
        /\ files'[MapKey(rres'.flt)].value.t = "dict"
        /\ OneRecordPerPackage(files'[MapKey(rres'.flt)].value.items,
                               ToDicts(rres'.pkgs))]_vars

(* the same, where both writes went through: what remains is the map of    *)
(* filter "all" when a formula and a cask share a name                     *)
C16_SameNameTwice ==
    [][(RefreshReturned /\ files'[MapKey(rres'.flt)].kind = "entry"
                        /\ files'[MapKey(rres'.flt)].token = rres'.tok) =>
        OneRecordPerPackage(files'[MapKey(rres'.flt)].value.items,
                            ToDicts(rres'.pkgs))]_vars

----------------------------------------------------------------------------
(* C17 *)

GetAllInstalledReturned == rres.op = "get_all_installed" /\ rres.outcome = "return"

(* p may stand before q: its kind comes first, or the kinds are equal and  *)
(* its lower-cased name does not come after q's                            *)
MayPrecede(p, q) ==
    \/ StrRank(KindValue(p.kind)) < StrRank(KindValue(q.kind))
    \/ /\ p.kind = q.kind
       /\ StrRank(Lower(p.name)) <= StrRank(Lower(q.name))

(* C17: every list get_all_installed returns, freshly fetched or served    *)
(* from the cache, is ordered by (kind, name lower-cased): the packages of *)
(* a kind stand together and, within a kind, in ascending order of their   *)
(* names compared without regard to case.                                  *)
C17_SortedByKindAndName ==
    GetAllInstalledReturned =>
        \A i, j \in 1..Len(rres.pkgs) :
            i < j => MayPrecede(rres.pkgs[i], rres.pkgs[j])

C17_Witness ==
    /\ GetAllInstalledReturned /\ rres.layer = "cache" /\ rres.flt = "all"
    /\ Len(rres.pkgs) = 3
    /\ rres.pkgs[1].kind = "CASK"
    /\ rres.pkgs[2].name = "a" /\ rres.pkgs[3].name = "B"

----------------------------------------------------------------------------
(* C18 *)

(* get_all_installed has just ended after a full refresh whose backend     *)
(* query raised: the tool does not answer for the kind asked for           *)
RefreshFailed ==
    /\ RepoCall("get_all_installed")
    /\ rres'.layer = "refresh"
    /\ ~FetchPkgs(rres'.flt).ok

(* the list entry as the call found it: missing (or not valid, or empty),  *)
(* or a file whose read raises CacheError                                  *)
ReadRaisesCacheError(flt) == CacheGet(files, Memo, ListKey(flt)).outcome = "raise"

(* C18: when the full refresh of get_all_installed fails because the       *)
(* backend tool is unavailable for the requested kind, get_all_installed   *)
(* returns an empty sequence and raises nothing, whether the refresh       *)
(* followed a cache miss or a CacheError.                                  *)
C18_RefreshFailureYieldsEmpty ==
    [][RefreshFailed => (rres'.outcome = "return" /\ rres'.pkgs = <<>>)]_vars

(* the same for the refresh that follows a CacheError alone *)
C18_AfterCacheError ==
    [][(RefreshFailed /\ ReadRaisesCacheError(rres'.flt)) =>
            (rres'.outcome = "return" /\ rres'.pkgs = <<>>)]_vars

----------------------------------------------------------------------------
(* C19 *)

(* a Repository operation has just ended whose refresh fetched from the    *)
(* backend and then failed to write the list entry                         *)
RefreshWriteFailed ==
    /\ clock' = clock
    /\ rres'.op \in {"get_all_installed", "get_details"}
    /\ rres'.listFailed

(* C19: when, during a refresh, the backend fetch succeeds and writing the *)
(* cache entry fails, the caller of the repository operation gets the      *)
(* write failure as a System error, a CacheError; it is not dropped.       *)
C19_WriteFailureSurfaced ==
    [][RefreshWriteFailed =>
            (rres'.outcome = "raise" /\ rres'.exc = "CacheError")]_vars

----------------------------------------------------------------------------
(* C20 *)

(* the observed Cache call tried to write the entry file and the write     *)
(* failed: Cache.set, or get_or_set after its loader returned              *)
WriteFailed ==
    /\ cres.w # "ok"
    /\ \/ cres.op = "set"
       \/ cres.op = "get_or_set" /\ cres.loads = 1 /\ cres.loader.does = "value"

(* the observed Cache call found an entry file whose read fails otherwise  *)
(* than by content that does not parse                                     *)
ReadFailed ==
    /\ cres.op \in {"get", "get_or_set"}
    /\ cres.before.kind \in {"unreadable", "nondict"}

RaisedSystemCacheError ==
    /\ cres.outcome = "raise"
    /\ cres.exc = "CacheError"
    /\ ErrorKind(cres.exc) = "System"

(* C20: a failed write of the entry file, in Cache.set or in get_or_set    *)
(* after the loader returned, raises a System CacheError whose context     *)
(* holds the key, the namespace and the file path; a read failure other    *)
(* than unparseable content raises a System CacheError too, and in         *)
(* get_or_set before the loader is invoked.                                *)
C20_CacheErrors ==
    /\ WriteFailed =>
            /\ RaisedSystemCacheError
            /\ {"key", "namespace", "path"} \subseteq DOMAIN cres.ctx
            /\ cres.ctx.key = cres.key
            /\ cres.ctx.namespace = Namespace
            /\ cres.ctx.path = FilePath(cres.key)
    /\ ReadFailed =>
            /\ RaisedSystemCacheError
            /\ cres.loads = 0

C20_Witness ==
    /\ WriteFailed /\ cres.op = "get_or_set" /\ cres.w = "truncated"
    /\ cres.exc = "CacheError"
    /\ cres.ctx.path = "~/.brewery/cache/repository/installed_all.json"

----------------------------------------------------------------------------
(* C21 *)

(* get_or_set invoked its loader, which raised an exception that is not a  *)
(* TransientError                                                          *)
LoaderFailed ==
    /\ cres.op = "get_or_set"
    /\ cres.loads = 1
    /\ cres.loader.does = "error"

(* the entry the call found could serve as a stale value *)
StaleCandidate ==
    /\ cres.allow_stale
    /\ cres.before.kind = "entry"
    /\ cres.before.value # JNull

(* C21: when the loader passed to get_or_set raises a failure that is not  *)
(* Transient, get_or_set raises that failure at once, also when            *)
(* allow_stale is true and a stale candidate exists, and the entry file is *)
(* left as it was.                                                         *)
C21_LoaderErrorPropagates ==
    LoaderFailed =>
        /\ cres.outcome = "raise"
        /\ cres.exc = "LoaderError"
        /\ ErrorKind(cres.exc) # "Transient"
        /\ Stored = cres.before

C21_Witness ==
    /\ LoaderFailed /\ StaleCandidate
    /\ cres.outcome = "raise" /\ cres.exc = "LoaderError"
    /\ Stored = cres.before

----------------------------------------------------------------------------
(* C22 *)

(* get_or_set returned the stale value: its loader raised a TransientError *)
StaleReturned ==
    /\ cres.op = "get_or_set"
    /\ cres.loads = 1
    /\ cres.loader.does = "transient"
    /\ cres.outcome = "return"

C22_NothingWritten ==
    StaleReturned =>
        /\ cres.value = cres.before.value
        /\ Stored = cres.before

(* the next get_or_set call, for the same key and ttl *)
C22_NextCallLoads ==
    (/\ StaleReturned
     /\ CallStep
     /\ cres'.op = "get_or_set"
     /\ cres'.key = cres.key
     /\ cres'.ttl = cres.ttl)
    => /\ cres'.before = cres.before
       /\ cres'.loads = 1

(* C22: when get_or_set returns a stale value because its loader failed    *)
(* transiently, it writes no new entry: the entry file keeps its _ts,      *)
(* _token and value, so the next get_or_set call finds the entry still     *)
(* invalid and invokes its loader again.                                   *)
C22_StaleNotWritten == [](C22_NothingWritten) /\ [][C22_NextCallLoads]_vars

C22_Witness ==
    /\ StaleReturned /\ cres.value # JNull
    /\ Stored = cres.before /\ Stored.kind = "entry"
    /\ Stored.ts < cres.now

----------------------------------------------------------------------------
(* C23 *)

HandleErrorCalled == fcall.fn = "handle_error"

(* C23: handle_error maps every User error (PackageNotFoundError included) *)
(* to the user-error exit code, every System error to the system-error     *)
(* code and every Transient error to the transient code; the three codes   *)
(* differ from one another and from the success code 0.                    *)
C23_ExitCodes ==
    /\ HandleErrorCalled =>
            /\ ErrorKind(fcall.arg.type) = "User" =>
                    fcall.out.code = EXIT_USER_ERROR
            /\ ErrorKind(fcall.arg.type) = "System" =>
                    fcall.out.code = EXIT_SYSTEM_ERROR
            /\ ErrorKind(fcall.arg.type) = "Transient" =>
                    fcall.out.code = EXIT_TRANSIENT_ERROR
            /\ fcall.out.code # EXIT_SUCCESS
    /\ Cardinality({EXIT_SUCCESS, EXIT_USER_ERROR, EXIT_SYSTEM_ERROR,
                     EXIT_TRANSIENT_ERROR}) = 4
    /\ EXIT_SUCCESS = 0

C23_Witness ==
    /\ HandleErrorCalled
    /\ fcall.arg.type = "CacheError"
    /\ "path" \in DOMAIN fcall.arg.ctx
    /\ fcall.out.code = 2

----------------------------------------------------------------------------
(* C24 *)

(* in this step the cask query of a fetch for both kinds is started *)
CaskQueryStarted ==
    /\ fetch'.flt = "all"
    /\ fetch'.cask = "running"
    /\ fetch.cask # "running" \/ fetch.pc \in {"idle", "done"}

(* the fetch for both kinds went on past its queries *)
FetchedBoth == fetch.flt = "all" /\ fetch.pc = "done" /\ fetch.res = "return"

(* C24: when get_all_installed(None) refreshes, the queries for formulae   *)
(* and for casks are issued concurrently and awaited jointly: the cask     *)
(* query is started while the formula query is in flight, without waiting  *)
(* for it to complete, and the refresh goes on only when both have         *)
(* finished.                                                               *)
C24_ConcurrentQueries ==
    /\ [][CaskQueryStarted => fetch'.formula = "running"]_vars
    /\ [](FetchedBoth => (fetch.formula = "done" /\ fetch.cask = "done"))

(* the second half alone: nothing is returned before both queries ended *)
C24_AwaitedJointly ==
    FetchedBoth => (fetch.formula = "done" /\ fetch.cask = "done")

----------------------------------------------------------------------------
(* C25 *)

(* two computations of the update token have been made, the second just    *)
(* now                                                                     *)
TwoComputations == fcall.fn = "_update_token" /\ fcall.prev.at >= 0

LessThanASecondApart == fcall.at - fcall.prev.at < TicksPerSec

(* the watched directories show the same modification times at both *)
NotModifiedBetween == fcall.fs = fcall.prev.fs

SameMemoWindow == fcall.at - fcall.prev.stamp < TicksPerSec

(* the token the first computation returned was that of the directories    *)
(* as they were then: they had not been modified since it was memoised     *)
FirstWasCurrent == fcall.prev.token = fcall.prev.fs

----------------------------------------------------------------------------
(* C26 *)

DerivedFlags == {"OUTDATED", "PINNED", "NOT_LINKED", "KEG_ONLY", "HAS_SERVICE"}

(* the field of the raw record a flag is named after *)
SourceField(flag) ==
    CASE flag = "OUTDATED" -> "outdated"
      [] flag = "PINNED" -> "pinned"
      [] flag = "NOT_LINKED" -> "linked_keg"
      [] flag = "KEG_ONLY" -> "keg_only"
      [] flag = "HAS_SERVICE" -> "service"

(* the fields derive_status reads to decide a flag *)
SourceFields(flag) ==
    CASE flag = "OUTDATED" -> {"outdated", "version"}
      [] flag = "NOT_LINKED" -> {"linked_keg", "installed"}
      [] OTHER -> {SourceField(flag)}

DeriveStatusCalled == fcall.fn = "derive_status"

(* whatever else of the record changes, the flag stays as it is while the  *)
(* given fields do                                                         *)
DependsOnlyOn(flag, fields) ==
    \A other \in StatusInfos :
        (\A k \in fields : other[k] = fcall.arg[k])
            => ((flag \in DeriveStatus(other)) <=> (flag \in fcall.out))

(* C26: each of OUTDATED, PINNED, NOT_LINKED, KEG_ONLY and HAS_SERVICE     *)
(* produced by derive_status depends only on its own corresponding source  *)
(* field: changing any other field of the raw record never changes whether *)
(* the flag is set.                                                        *)
C26_StatusBitIndependence ==
    DeriveStatusCalled =>
        \A flag \in DerivedFlags : DependsOnlyOn(flag, {SourceField(flag)})

(* C26, amended: each flag depends only on the fields derive_status reads  *)
(* for it (OUTDATED: outdated and version; NOT_LINKED: linked_keg and      *)
(* installed; the others their one field), no field is read for two flags, *)
(* and a pinned record is OUTDATED only if it says so itself.              *)
C26_StatusBitsOwnFields ==
    DeriveStatusCalled =>
        /\ \A flag \in DerivedFlags : DependsOnlyOn(flag, SourceFields(flag))
        /\ \A f, g \in DerivedFlags :
                f # g => SourceFields(f) \cap SourceFields(g) = {}
        /\ ("OUTDATED" \in fcall.out
                => (fcall.arg.outdated \/ VersionOutdated(fcall.arg)))

(* a pinned record that is not outdated *)
C26_Witness ==
    /\ DeriveStatusCalled
    /\ fcall.arg.pinned /\ ~fcall.arg.outdated /\ ~VersionOutdated(fcall.arg)
    /\ fcall.out = {"PINNED", "NOT_LINKED", "HAS_SERVICE"}

----------------------------------------------------------------------------
(* C27 *)

(* get_all_installed(FORMULA) has asked the backend *)
FormulaeFetched ==
    /\ rres.op = "get_all_installed" /\ rres.flt = "formula"
    /\ rres.layer = "refresh"

TheFormula == RawFormula(brew.formulae[1], TRUE)

(* the backend reports a single installed formula, its only installed      *)
(* version the latest stable one, not outdated, not pinned, not keg-only   *)
SingleCurrentFormula ==
    /\ brew.mode = "up" /\ Len(brew.formulae) = 1
    /\ TheFormula.installed = <<TheFormula.stable>>
    /\ ~TheFormula.outdated /\ ~TheFormula.pinned /\ ~TheFormula.keg_only

ReturnedThatFormulaOnly ==
    /\ rres.outcome = "return"
    /\ rres.pkgs = <<Package(TheFormula.name, "FORMULA",
                              <<TheFormula.stable>>, {})>>

(* C27: when the backend reports a single installed formula whose only     *)
(* installed version equals its latest stable version and which is not     *)
(* outdated, not pinned and not keg-only, get_all_installed(FORMULA)       *)
(* returns exactly one Package with that name, status NONE and versions    *)
(* the one-element list of that version.                                   *)
C27_ScenarioA ==
    (FormulaeFetched /\ SingleCurrentFormula) => ReturnedThatFormulaOnly

(* C27, amended: the same of a formula that is linked as well. *)
C27_ScenarioALinked ==
    (FormulaeFetched /\ SingleCurrentFormula /\ TheFormula.linked_keg)
        => ReturnedThatFormulaOnly

C27_Witness ==
    /\ FormulaeFetched /\ SingleCurrentFormula /\ TheFormula.linked_keg
    /\ brew.casks # <<>>
    /\ Len(rres.pkgs) = 1 /\ rres.pkgs[1].status = {}

----------------------------------------------------------------------------
(* C28 *)

RoundTripMade == fcall.fn = "package_from_dict"

(* C28: for every Package (every combination of status flags, with or      *)
(* without installed_on, with any dependencies)                            *)
(* package_from_dict(p.to_serializable_dict()) equals p; the status flag   *)
(* set is preserved exactly, and a list read back equals the list written. *)
C28_RoundTrip ==
    RoundTripMade =>
        /\ fcall.out = fcall.arg
        /\ fcall.out.status = fcall.arg.status
        /\ fcall.list = <<fcall.arg, PkgB>>

(* all flags set, a time with microseconds, two dependencies: the dict     *)
(* holds the number 63 and the text with the fraction                      *)
C28_Witness ==
    /\ RoundTripMade
    /\ fcall.arg.status = Flags /\ fcall.dict.status = 63
    /\ fcall.arg.installed_on = <<5, 7>> /\ Len(fcall.dict.installed_on) = 2
    /\ Len(fcall.arg.deps) = 2
    /\ fcall.out = fcall.arg

----------------------------------------------------------------------------
(* C29 *)

(* the entry a read of the key finds before the call: valid and non-empty  *)
EntryHit(key) == NonEmptyHit(CacheGet(files, Memo, key))

(* ... and with a record of the name *)
EntryHolds(key, name) == EntryHit(key) /\ HasName(files[key].value.items, name)

(* the forced refresh, had it been made, would not have found the name *)
RefreshMisses(flt, name) ==
    FetchPkgs(flt).ok /\ ~HasName(FetchPkgs(flt).pkgs, name)

LayersInOrder(name, flt) ==
    /\ EntryHolds(MapKey(flt), name)
            => /\ rres'.layer = "map" /\ rres'.outcome = "return"
               /\ rres'.calls = 0 /\ files' = files
    /\ EntryHolds(ListKey(flt), name)
            => /\ rres'.layer \in {"map", "list"}
               /\ rres'.calls = 0 /\ files' = files
    /\ rres'.layer = "list"
            => ~EntryHit(MapKey(flt)) /\ EntryHolds(ListKey(flt), name)
    /\ rres'.layer = "refresh"
            => /\ ~EntryHit(MapKey(flt)) /\ ~EntryHolds(ListKey(flt), name)
               /\ ~RefreshMisses(flt, name)
    /\ rres'.layer = "backend"
            => /\ ~EntryHit(MapKey(flt)) /\ ~EntryHolds(ListKey(flt), name)
               /\ RefreshMisses(flt, name)
               /\ rres'.calls = FetchPkgs(flt).calls + 1

(* C29: get_details attempts its layers strictly in the order map cache,   *)
(* list cache, forced refresh, direct backend query, a later one only if   *)
(* every earlier one missed or errored: when the map cache holds the name  *)
(* no list-cache read, refresh or backend query happens, and when the list *)
(* cache holds it no backend query happens.                                *)
C29_LayerOrdering ==
    [][RepoCall("get_details") => LayersInOrder(rres'.name, rres'.flt)]_vars

(* the direct query answered after the three layers before it had missed *)
C29_Witness ==
    /\ rres.op = "get_details"
    /\ rres.layer = "backend" /\ rres.outcome = "return"
    /\ rres.calls = 2
    /\ brew.formulae # <<>>

----------------------------------------------------------------------------
(* C30 *)

(* a read of the key before the call raises CacheError *)
ReadRaises(key) ==
    /\ CacheGet(files, Memo, key).outcome = "raise"
    /\ CacheGet(files, Memo, key).exc = "CacheError"
    /\ ErrorKind("CacheError") = "System"

(* the read of the map cache raises, or that of the list cache does when   *)
(* it is made                                                              *)
CacheLayerRaises(flt) ==
    \/ ReadRaises(MapKey(flt))
    \/ ~EntryHit(MapKey(flt)) /\ ReadRaises(ListKey(flt))

(* the backend answers and knows the name: the refresh or the direct query *)
(* can produce the package                                                 *)
BackendHas(name, kind) ==
    IF kind = "FORMULA" THEN FormulaInfo(name).ok ELSE CaskInfo(name).ok

ReturnedThePackage(name, kind) ==
    /\ rres'.outcome = "return"
    /\ Len(rres'.pkgs) = 1
    /\ rres'.pkgs[1].name = name /\ rres'.pkgs[1].kind = kind

CacheErrorPassedOver(name, flt, kind) ==
    /\ rres'.exc # "CacheError"
    /\ rres'.layer # "map"
    /\ ReadRaises(ListKey(flt)) => rres'.layer \in {"refresh", "backend"}
    /\ (EntryHolds(ListKey(flt), name) \/ BackendHas(name, kind))
            => ReturnedThePackage(name, kind)

(* C30: a System CacheError raised while get_details reads the map cache   *)
(* or the list cache is caught and the next layer is attempted: a package  *)
(* obtainable from a later layer (list cache, refresh or backend) is still *)
(* returned, and the CacheError never reaches the caller while a later     *)
(* layer remains.                                                          *)
C30_CacheErrorCaught ==
    [][(RepoCall("get_details") /\ CacheLayerRaises(rres'.flt))
        => CacheErrorPassedOver(rres'.name, rres'.flt, rres'.kind)]_vars

(* the map entry could not be read and the list cache gave the package *)
C30_Witness ==
    /\ rres.op = "get_details"
    /\ files[MapKey(rres.flt)] = Unreadable
    /\ rres.layer = "list" /\ rres.outcome = "return"

----------------------------------------------------------------------------
(* C31 *)

(* the list entry is absent, was written under another token, or holds the *)
(* empty list                                                              *)
ListMissed(flt) ==
    \/ files[ListKey(flt)].kind = "absent"
    \/ /\ files[ListKey(flt)].kind = "entry"
       /\ \/ files[ListKey(flt)].token # CurrentToken
          \/ files[ListKey(flt)].value = JList(<<>>)

FullRefreshReturned(flt) ==
    /\ rres'.layer = "refresh"
    /\ rres'.calls = FetchPkgs(flt).calls
    /\ rres'.exc # "CacheError"
    /\ FetchPkgs(flt).ok
            => rres'.outcome = "return" /\ rres'.pkgs = FetchPkgs(flt).pkgs

(* C31: in get_all_installed a cache miss (entry absent, token mismatch or *)
(* cached empty list) and a System CacheError from the cache read both     *)
(* lead to a full refresh whose freshly fetched list is returned; the      *)
(* CacheError of the read never reaches the caller.                        *)
C31_MissOrErrorRefreshes ==
    [][\A flt \in Filters :
        (/\ RepoCall("get_all_installed") /\ rres'.flt = flt
         /\ ListMissed(flt) \/ ReadRaises(ListKey(flt)))
        => FullRefreshReturned(flt)]_vars

(* the entry could not be read, nor written afterwards, and the fetched    *)
(* list was returned                                                       *)
C31_Witness ==
    /\ rres.op = "get_all_installed"
    /\ files[ListKey(rres.flt)] = Unreadable
    /\ rres.layer = "refresh" /\ rres.outcome = "return"
    /\ rres.pkgs # <<>>

----------------------------------------------------------------------------
(* C32 *)

(* the delays taken so far are base_delay * backoff^(k-1), k = 1, 2, ... *)
DelaysAsSpecified ==
    \A k \in 1..Len(rt.slept) : rt.slept[k] = rt.base * rt.backoff ^ (k - 1)

(* one delay between two attempts, none after the last one made *)
DelaysBetweenAttempts ==
    /\ rt.pc = "attempt" => (rt.calls = rt.attempt - 1 /\ Len(rt.slept) = rt.calls)
    /\ rt.pc = "sleep" =>
            /\ rt.attempt < rt.n /\ rt.calls = rt.attempt
            /\ Len(rt.slept) = rt.calls - 1
            /\ ErrorKind(rt.last.exc.type) = "Transient"
    /\ (rt.pc = "done" /\ rt.n >= 1) =>
            /\ rt.calls = rt.attempt /\ Len(rt.slept) = rt.calls - 1
            /\ rt.res.outcome = "return" => rt.res = rt.last

----------------------------------------------------------------------------
(* C33 *)

(* C33: for any two computations of the update token, however close        *)
(* together in time, the two tokens are equal if and only if neither       *)
(* watched directory's last-modified time differs between the two          *)
(* computations: a change of either directory shows in the very next token *)
(* computed.                                                               *)
C33_TokenReflectsMtimes ==
    TwoComputations => ((fcall.token = fcall.prev.token) <=> NotModifiedBetween)

----------------------------------------------------------------------------
(* C34 *)

(* the call found stored content that is not a well-formed entry: text     *)
(* json.loads rejects ("corrupt": unparseable, empty or truncated) or a    *)
(* parsed value that is not an object ("nondict": a list, string, number)  *)
FoundMalformed ==
    /\ cres.op \in {"get", "get_or_set"}
    /\ cres.before.kind \in {"corrupt", "nondict"}

(* what the same call does on an absent entry: get returns None,           *)
(* get_or_set goes to its loader; no read error either way                 *)
TreatedAsAbsent ==
    /\ ~(cres.exc = "CacheError" /\ cres.ctx.operation = "read")
    /\ cres.op = "get" => cres.outcome = "return" /\ cres.value = JNull
    /\ cres.op = "get_or_set" => cres.loads = 1

(* C34: any stored content that is not a well-formed cache entry           *)
(* (unparseable text, an empty or truncated file, or parseable JSON that   *)
(* is not an object) is treated by get and get_or_set as an absent entry,  *)
(* a cache miss, and never as a raised read error.                         *)
C34_MalformedIsMiss == FoundMalformed => TreatedAsAbsent

----------------------------------------------------------------------------
(* C35 *)

(* both processes wrote the entry file and have finished *)
BothWrote ==
    \A i \in RaceProcs : writers.proc[i].pc = "done" /\ writers.proc[i].wrote

(* the entry the process of the last write wrote *)
LastWritten ==
    Entry(writers.proc[writers.last].now, writers.proc[writers.last].token,
          writers.proc[writers.last].value)

(* C35: when two refreshes of one key run at the same time, both may       *)
(* invoke their loader, and once both have finished the stored entry is,   *)
(* in full, the entry written by whichever write happened last, never a    *)
(* merge or mixture of the two writes.                                     *)
C35_LastWriterWins ==
    BothWrote =>
        /\ writers.text = Dumps(LastWritten)
        /\ files[RaceKey] = LastWritten

----------------------------------------------------------------------------
(* Claims about a refresh taken step by step, checked under SpecRefresh.   *)
(* fetch is the refresh in progress: fetch.flt its kind filter,            *)
(* fetch.formula and fetch.cask its two queries, fetch.pc = "stored" once  *)
(* its writes have been attempted.                                         *)

(* C36 *)

(* this step creates or modifies an entry file *)
EntryWritten == \E k \in Keys : files'[k] # files[k]

(* every query the filter asks for has ended well and none has failed *)
AllQueriesDone ==
    /\ fetch.flt \in {"all", "formula"} => fetch.formula = "done"
    /\ fetch.flt \in {"all", "cask"} => fetch.cask = "done"
    /\ fetch.formula # "failed" /\ fetch.cask # "failed"

(* the refresh ended with the exception of one of its queries *)
FetchRaised == fetch.pc = "done" /\ fetch.res = "raise"

(* C36: a refresh whose backend fetch fails writes nothing: if any backend *)
(* query of the refresh raises (also when, for filter "all", the formula   *)
(* query succeeded and the cask query failed), neither the list entry nor  *)
(* the map entry is created or modified, so no partial result is cached.   *)
C36_FailedFetchWritesNothing ==
    /\ [][EntryWritten => AllQueriesDone]_vars
    /\ [][FetchRaised => (fetch'.pc # "stored" /\ ~EntryWritten)]_vars

(* a refresh for both kinds, over entries written before, whose formula    *)
(* query succeeded and whose cask query failed                             *)
C36_Witness ==
    /\ FetchRaised /\ fetch.flt = "all"
    /\ fetch.formula = "done" /\ fetch.cask = "failed"
    /\ files[ListKey("all")].kind = "entry"
    /\ files[MapKey("all")].kind = "entry"

----------------------------------------------------------------------------
(* C37 *)

(* the entry of a key is there and carries the current token *)
ExistsCurrent(key) ==
    files[key].kind = "entry" /\ files[key].token = CurrentToken

(* the package names a list entry or a map entry holds *)
EntryNames(key) ==
    {files[key].value.items[i].name : i \in 1..Len(files[key].value.items)}

(* C37: in every state reachable through Repository operations (also      *)
(* refreshes in which one of the two cache writes fails), whenever the     *)
(* entries installed_K and installed_map_K both exist with the current     *)
(* token they contain the same set of package names, so layer 1 and        *)
(* layer 2 of get_details agree on whether a name is installed.            *)
C37_ListMapConsistent ==
    \A flt \in Filters :
        (ExistsCurrent(ListKey(flt)) /\ ExistsCurrent(MapKey(flt))) =>
            EntryNames(ListKey(flt)) = EntryNames(MapKey(flt))

----------------------------------------------------------------------------
(* C38 *)

(* the two keys of a kind filter *)
KeysOf(flt) == {ListKey(flt), MapKey(flt)}

(* the keys of different filters are different, as are the list key and    *)
(* the map key of one filter                                               *)
KeysDistinct ==
    \A f, g \in Filters :
        /\ ListKey(f) # MapKey(g)
        /\ f # g => (ListKey(f) # ListKey(g) /\ MapKey(f) # MapKey(g))

(* the entries this step creates or modifies *)
Touched == {k \in Keys : files'[k] # files[k]}

(* C38: a refresh for kind filter K writes only the entries installed_K    *)
(* and installed_map_K: the entries of the other two filters are left      *)
(* unchanged, and the three filters use pairwise distinct list keys and    *)
(* map keys that never collide with one another.                           *)
C38_RefreshWritesOwnKeys ==
    /\ [][Touched \subseteq KeysOf(fetch.flt)]_vars
    /\ [](KeysDistinct)

(* a refresh for casks has stored its entries beside those of the other    *)
(* two filters, which hold other packages                                  *)
C38_Witness ==
    /\ fetch.pc = "stored" /\ fetch.flt = "cask"
    /\ \A k \in Keys : files[k].kind = "entry"
    /\ files[ListKey("cask")].value # files[ListKey("formula")].value
    /\ files[ListKey("cask")].value # files[ListKey("all")].value
    /\ files[ListKey("formula")].value.items # <<>>

============================================================================
